---- MODULE Spec2Model ----
(***************************************************************************)
(* g.remote: backend selection (get_session), the connection backends      *)
(* (friendlyssh, simplessh, pexpectssh, localsession, fabricbackend) and   *)
(* the remote GRASS session built on one connection (GrassSession, in      *)
(* grasssession.py and, in an older revision, in g.remote.py).             *)
(***************************************************************************)
EXTENDS Integers, Sequences, FiniteSets, TLC

VARIABLES
    \* ---- get_session (g.remote.py) ----
    requested_backend,  \* options['backend'], "" when the option is not given
    construct,          \* environment: what importing + constructing each backend does
    config,             \* environment: state of the file named by options['config']
    backends,           \* the candidate list built at g.remote.py:226-231
    idx,                \* position of the for loop over backends
    session,            \* the local variable session ("none" is Python's None)
    pc,                 \* position in get_session
    attempted,          \* history: backends whose try block was entered, in order
    messages,           \* history: gscript.verbose / gscript.fatal messages, in order
    \* ---- one connection object and the two file systems ----
    conn,               \* the connection object: its class and its attributes
    remote,             \* remote files: path -> content, Absent when there is none
    local,              \* local files: path -> content, Absent when there is none
    last,               \* history: the last call on the connection and how it ended
    sent,               \* history: the last put that returned normally
    ncalls,             \* history: number of calls made on the connection
    \* ---- one GrassSession object on the connection ----
    gs,                 \* the GrassSession object: its class and its attributes
    closed,             \* history: close() has been called on the session
    loop,               \* the for loop of put_elements / get_elements in progress
    trace,              \* history: what the last session call did, in order
    res,                \* history: the last session call and how it ended
    \* ---- callers of run_code working in one local directory ----
    inv,                \* the invocations of run_code / run_bash_code and where each stands
    workdir,            \* the local working directory: script name -> the invocation that wrote it
    \* ---- main (g.remote.py) ----
    mainpc,             \* the statement of main under way or last completed
    \* ---- one SshSession object (pexpectssh.py) and its _exec ----
    sshsession,         \* the SshSession object: its password, and history counters
    child               \* the pexpect child of the _exec under way and where _exec stands

selVars == <<requested_backend, construct, config, backends, idx, session, pc,
             attempted, messages>>

connVars == <<conn, remote, local, last, sent, ncalls>>

sessVars == <<gs, closed, loop, trace, res>>

callerVars == <<inv, workdir, mainpc, sshsession, child>>

vars == <<selVars, connVars, sessVars, callerVars>>

----------------------------------------------------------------------------
(* Values shared by the layers                                              *)

\* Python's None, as a returned value.
NoneValue == [type |-> "None", returncode |-> 0, cmd |-> "-", stdout |-> <<>>]

\* The remote temporary directory 'mktemp -d' makes, and the fixed one of
\* g.remote.py:339.
TempDir == "/tmp/tmp.k3"
FixedDir == "/tmp/gremote"

\* No file at a path.
Absent == "absent"

\* File contents, local paths and remote paths of the connection-level runs.
Contents == {"x", "y"}
LocalPaths == {"l1", "l2"}
RemotePaths == {"r1"}

\* No connection object.
NoConn == [kind |-> "none", sftp_live |-> FALSE, transport_live |-> FALSE,
           logfile_open |-> FALSE, openagent |-> FALSE, sftp_made |-> 0,
           released |-> [sftp |-> 0, transport |-> 0, logfile |-> 0, agent |-> 0]]

\* No GrassSession object.
NoSession == [impl |-> "-", state |-> "none", given |-> "", directory |-> "",
              delete_directory |-> FALSE, grass_version |-> 0]

NoLoop == [op |-> "-", elements |-> <<>>,
           kind |-> [pack |-> "", unpack |-> "", suffix |-> ""], i |-> 0]

\* The session layer is not in use.
SessUnused ==
    /\ gs = NoSession
    /\ closed = FALSE
    /\ loop = NoLoop
    /\ trace = <<>>
    /\ res = [op |-> "-"]

\* No invocation of run_code is under way.
\* No SshSession object and no child process.
NoSshSession == [password |-> "", asked |-> 0, nexec |-> 0]
NoChild == [pc |-> "-", op |-> "-", seen |-> -1, yes |-> 0, sent |-> 0,
            line |-> "-", asked |-> FALSE, alive |-> FALSE]

CallerUnused ==
    /\ inv = <<>>
    /\ workdir = <<>>
    /\ mainpc = "-"
    /\ sshsession = NoSshSession
    /\ child = NoChild

NoCall == [op |-> "-"]
NoPut == [rpath |-> "-", content |-> Absent]

\* The connection layer is not in use.
ConnUnused ==
    /\ conn = NoConn
    /\ remote = [p \in RemotePaths |-> Absent]
    /\ local = [p \in LocalPaths |-> Absent]
    /\ last = NoCall
    /\ sent = NoPut
    /\ ncalls = 0

----------------------------------------------------------------------------
(* get_session                                                              *)

\* The values the parser accepts for the backend option; "" is "not given".
BackendOption == {"", "simple", "pexpect", "paramiko"}

\* The branches of the for loop.
BackendNames == {"paramiko", "simple", "pexpect"}

\* What the try block of a backend can do: construct the connection ("ok"),
\* raise ImportError (the module or its dependency is missing), or raise
\* something else from the constructor.  simplessh's constructor only stores
\* its arguments; friendlyssh's opens and authenticates a transport and
\* raises TypeError without password or key; pexpectssh's opens its log file.
ConstructOutcomes(b) ==
    IF b = "simple" THEN {"ok", "ImportError"}
    ELSE {"ok", "ImportError", "error"}

\* The file named by options['config']: not supplied, well-formed with mode
\* 0600, missing, another mode, or not two whitespace-separated tokens.
ConfigStates == {"none", "ok", "missing", "insecure", "malformed"}

check_config_file_NoModeCheck(c) == c \notin {"missing"}

\* check_config_file: TRUE when it returns, FALSE when it calls gscript.fatal.
check_config_file(c) == c \notin {"missing", "insecure"}

\* g.remote.py:248, len(values) == 2.
ConfigWellFormed(c) == c # "malformed"

CandidateList_WithFallback(req) ==
    IF req # "" THEN <<req, "paramiko", "simple">> ELSE <<"paramiko", "simple">>

\* g.remote.py:226-231.
CandidateList(req) ==
    IF req # "" THEN <<req>> ELSE <<"paramiko", "simple">>

\* What the loop does after the try block of one backend: break after the
\* constructor returned, continue after ImportError, and any other
\* exception leaves get_session.
AfterAttempt_NoBreak(outcome) ==
    CASE outcome = "ok" -> "continue"
      [] outcome = "ImportError" -> "continue"
      [] OTHER -> "raise"

AfterAttempt_StopOnImportError(outcome) ==
    CASE outcome = "ok" -> "break"
      [] outcome = "ImportError" -> "break"
      [] OTHER -> "raise"

AfterAttempt_Retry(outcome) ==
    CASE outcome = "ok" -> "break"
      [] outcome = "ImportError" -> "retry"
      [] OTHER -> "raise"

AfterAttempt_ContinueOnError(outcome) ==
    CASE outcome = "ok" -> "break"
      [] OTHER -> "continue"

AfterAttempt(outcome) ==
    CASE outcome = "ok" -> "break"
      [] outcome = "ImportError" -> "continue"
      [] OTHER -> "raise"

AttemptMessage_Silent(b, outcome) ==
    CASE outcome = "ok" -> <<[level |-> "verbose", text |-> "Using", backend |-> b]>>
      [] OTHER -> <<>>

\* The verbose message of one try block.
AttemptMessage(b, outcome) ==
    CASE outcome = "ok" -> <<[level |-> "verbose", text |-> "Using", backend |-> b]>>
      [] outcome = "ImportError" ->
            <<[level |-> "verbose", text |-> "Tried", backend |-> b]>>
      [] OTHER -> <<>>

NoBackendMessage == [level |-> "fatal", text |-> "No backend available", backend |-> ""]
ConfigMessage == [level |-> "fatal", text |-> "config", backend |-> ""]

SelInit ==
    /\ requested_backend \in BackendOption
    /\ construct \in {f \in [BackendNames -> {"ok", "ImportError", "error"}] :
                        \A b \in BackendNames : f[b] \in ConstructOutcomes(b)}
    /\ config \in ConfigStates
    /\ backends = <<>>
    /\ idx = 0
    /\ session = "none"
    /\ pc = "start"
    /\ attempted = <<>>
    /\ messages = <<>>
    /\ ConnUnused
    /\ SessUnused
    /\ CallerUnused

\* g.remote.py:225-260: the candidate list, then the credentials file.
get_session_begin ==
    /\ pc = "start"
    /\ backends' = CandidateList(requested_backend)
    /\ idx' = 1
    /\ IF config = "none" \/ (check_config_file(config) /\ ConfigWellFormed(config))
       THEN /\ pc' = "loop"
            /\ messages' = messages
       ELSE /\ pc' = "fatal"
            /\ messages' = Append(messages, ConfigMessage)
    /\ UNCHANGED <<requested_backend, construct, config, session, attempted>>
    /\ UNCHANGED <<connVars, sessVars>>
    /\ UNCHANGED callerVars

\* g.remote.py:262-301: one iteration of the for loop.
get_session_try ==
    /\ pc = "loop"
    /\ idx <= Len(backends)
    /\ LET b == backends[idx]
           outcome == construct[b]
           after == AfterAttempt(outcome)
       IN /\ attempted' = Append(attempted, b)
          /\ session' = IF outcome = "ok" THEN b ELSE session
          /\ messages' = messages \o AttemptMessage(b, outcome)
          /\ idx' = IF after = "continue" THEN idx + 1 ELSE idx
          /\ pc' = CASE after = "break" -> "after_loop"
                     [] after = "raise" -> "raised"
                     [] OTHER -> IF idx + 1 > Len(backends) THEN "after_loop" ELSE "loop"
    /\ UNCHANGED <<requested_backend, construct, config, backends>>
    /\ UNCHANGED <<connVars, sessVars>>
    /\ UNCHANGED callerVars

\* g.remote.py:302-319: fatal when no backend was constructed, else return.
get_session_end ==
    /\ pc = "after_loop"
    /\ IF session = "none"
       THEN /\ pc' = "fatal"
            /\ messages' = Append(messages, NoBackendMessage)
       ELSE /\ pc' = "returned"
            /\ messages' = messages
    /\ UNCHANGED <<requested_backend, construct, config, backends, idx, session,
                   attempted>>
    /\ UNCHANGED <<connVars, sessVars>>
    /\ UNCHANGED callerVars

SelNext == get_session_begin \/ get_session_try \/ get_session_end

SpecSelector == SelInit /\ [][SelNext]_vars

----------------------------------------------------------------------------
(* Properties of get_session                                                *)

SelDone == pc \in {"returned", "fatal", "raised"}

\* get_session went past the credentials file (none supplied, or a good one).
ConfigPassed == config \in {"none", "ok"}

\* Position of the first candidate whose construction succeeds, 0 if none.
FirstOk ==
    LET S == {i \in 1..Len(backends) : construct[backends[i]] = "ok"}
    IN IF S = {} THEN 0 ELSE CHOOSE i \in S : \A j \in S : i <= j

\* Every candidate before position i is unavailable (ImportError).
UnavailableBefore(i) ==
    \A j \in 1..(i - 1) : construct[backends[j]] = "ImportError"

NoBackendFatals == Len(SelectSeq(messages, LAMBDA m : m = NoBackendMessage))

\* C1 (as stated): whenever some candidate of the list can be constructed,
\* get_session returns the connection of the first such candidate, and no
\* candidate after it is attempted.
C1_ReturnsFirstConstructible ==
    (SelDone /\ ConfigPassed /\ FirstOk # 0) =>
        /\ pc = "returned"
        /\ session = backends[FirstOk]
        /\ Len(attempted) <= FirstOk

\* C1 (amended): the candidates are attempted in list order and none after
\* the first constructible one is attempted; when get_session returns, it
\* returns the first constructible candidate; and it does return it whenever
\* every candidate before it failed with ImportError (another exception of
\* an earlier candidate leaves get_session instead).
C1_ShortCircuit ==
    /\ Len(attempted) <= Len(backends)
    /\ attempted = SubSeq(backends, 1, Len(attempted))
    /\ FirstOk # 0 => Len(attempted) <= FirstOk
    /\ pc = "returned" => (FirstOk # 0 /\ session = backends[FirstOk])
    /\ (SelDone /\ ConfigPassed /\ FirstOk # 0 /\ UnavailableBefore(FirstOk)) =>
            (pc = "returned" /\ session = backends[FirstOk]
               /\ Len(attempted) = FirstOk)

\* Witness of C1: the first candidate was constructed and returned while the
\* second one, also constructible, was never attempted.
C1_Witness ==
    /\ pc = "returned"
    /\ backends = <<"paramiko", "simple">>
    /\ construct["simple"] = "ok"
    /\ session = "paramiko"
    /\ attempted = <<"paramiko">>

\* C2 (as stated): whenever no candidate of the list can be constructed,
\* every candidate is attempted exactly once, 'No backend available' is
\* reported exactly once, and no connection is returned.
C2_AllAttemptedThenFatal ==
    (SelDone /\ ConfigPassed /\ FirstOk = 0) =>
        /\ attempted = backends
        /\ NoBackendFatals = 1
        /\ pc = "fatal"
        /\ session = "none"

\* C2 (amended): whenever every candidate of the list fails with
\* ImportError, every candidate is attempted exactly once, in order, then
\* 'No backend available' is reported exactly once and nothing is returned;
\* and whenever no candidate can be constructed, for whatever reason, no
\* connection is ever returned and the fatal condition is reported at most
\* once.
C2_AllUnavailableThenFatal ==
    /\ (SelDone /\ ConfigPassed /\ UnavailableBefore(Len(backends) + 1)) =>
            /\ attempted = backends
            /\ NoBackendFatals = 1
            /\ messages[Len(messages)] = NoBackendMessage
            /\ pc = "fatal"
            /\ session = "none"
    /\ FirstOk = 0 => (session = "none" /\ pc # "returned")
    /\ NoBackendFatals <= 1
    /\ \A i, j \in 1..Len(attempted) : attempted[i] = attempted[j] => i = j

\* Witness of C2: both candidates of the default list were attempted and
\* found unavailable, and the fatal condition was reported.
C2_Witness ==
    /\ pc = "fatal"
    /\ attempted = <<"paramiko", "simple">>
    /\ session = "none"
    /\ NoBackendFatals = 1

\* The messages of skipped candidates ('Tried ... but it is not available').
SkippedMessages == SelectSeq(messages, LAMBDA m : m.text = "Tried")

C18_ConfigErrorBeforeAttempt ==
    (config \in {"missing", "insecure", "malformed"}) =>
        /\ attempted = <<>>
        /\ session = "none"
        /\ pc \in {"start", "fatal"}
        /\ pc = "fatal" => messages = <<ConfigMessage>>
        /\ pc = "start" => messages = <<>>

\* Witness of C18: a credentials file with another mode than 0600 ended
\* get_session although every backend could have been constructed.
C18_Witness ==
    /\ config = "insecure"
    /\ pc = "fatal"
    /\ \A b \in BackendNames : construct[b] = "ok"
    /\ attempted = <<>>
    /\ messages = <<ConfigMessage>>

\* C19: a candidate whose construction fails for another reason than
\* ImportError ends get_session with that exception: it is the last
\* candidate attempted, nothing is returned and no fatal message replaces
\* the exception; every candidate attempted before another one was
\* unavailable (ImportError).
C19_OtherFailureSurfaces ==
    /\ \A i \in 1..Len(attempted) :
          /\ construct[attempted[i]] = "error" =>
                (i = Len(attempted) /\ pc = "raised" /\ session = "none"
                    /\ NoBackendFatals = 0)
          /\ i < Len(attempted) => construct[attempted[i]] = "ImportError"
    /\ pc = "raised" =>
          (attempted # <<>> /\ construct[attempted[Len(attempted)]] = "error")

\* Witness of C19: the constructor of the first candidate raised (no
\* password or key) and the second candidate, which could have been
\* constructed, was not attempted.
C19_Witness ==
    /\ pc = "raised"
    /\ backends = <<"paramiko", "simple">>
    /\ construct["paramiko"] = "error" /\ construct["simple"] = "ok"
    /\ attempted = <<"paramiko">>
    /\ session = "none"

\* The candidates attempted so far, as a set.
AttemptedSet == {attempted[i] : i \in 1..Len(attempted)}

\* C20: with a backend given by name the candidate list is that backend
\* alone, only it is ever attempted and only it can be returned; without
\* one the list is paramiko then simple, attempted in this order; pexpect
\* is attempted only when it was requested by name.
C20_ForcedOrPriorityList ==
    /\ pc # "start" =>
          backends = IF requested_backend # "" THEN <<requested_backend>>
                     ELSE <<"paramiko", "simple">>
    /\ Len(attempted) <= Len(backends)
    /\ attempted = SubSeq(backends, 1, Len(attempted))
    /\ requested_backend # "" =>
          (AttemptedSet \subseteq {requested_backend}
             /\ session \in {"none", requested_backend})
    /\ requested_backend = "" =>
          (AttemptedSet \subseteq {"paramiko", "simple"}
             /\ session \in {"none", "paramiko", "simple"})
    /\ "pexpect" \in AttemptedSet => requested_backend = "pexpect"

\* Witness of C20: the simple backend was requested and is unavailable;
\* get_session ended fatally without attempting paramiko, which could have
\* been constructed.
C20_Witness ==
    /\ requested_backend = "simple"
    /\ construct["simple"] = "ImportError" /\ construct["paramiko"] = "ok"
    /\ pc = "fatal"
    /\ attempted = <<"simple">>
    /\ session = "none"

----------------------------------------------------------------------------
(* The connection backends                                                  *)

ConnKinds == {"paramiko", "simple", "pexpect", "local", "fabric"}
ExitStatuses == {0, 1}
\* How a caller passes check to run: not at all, check=True or check=False.
CheckArgs == {"default", "true", "false"}

\* The state of a connection object when its constructor returns:
\* friendlyssh opens the transport (friendlyssh.py:54-66), pexpectssh opens
\* its log file (pexpectssh.py:60-70), the others only store arguments.
Constructed(kind) ==
    [NoConn EXCEPT !.kind = kind,
                   !.transport_live = (kind = "paramiko"),
                   !.logfile_open = (kind = "pexpect")]

\* Returned values: a result object with returncode, stdout and stderr
\* (subprocess.CompletedProcess, fabric's Result), or the text pexpect read.
\* The captured standard output: 'mktemp -d' prints the new directory and a
\* newline; the other commands of the model print nothing that is read.
Stdout(status, cmd) ==
    IF cmd = "mktemp" /\ status = 0 THEN <<TempDir, "\n">> ELSE <<>>
Result(status, cmd) ==
    [type |-> "Result", returncode |-> status, cmd |-> cmd, stdout |-> Stdout(status, cmd)]
StrValue(cmd) == [type |-> "Str", returncode |-> 0, cmd |-> cmd, stdout |-> <<>>]

\* How one call on a connection ends: the connection afterwards, whether it
\* raised (and what), whether the remote command or the copy was carried
\* out, the value returned, and whether remote output went to the terminal.
Return(c, ret, executed, terminal) ==
    [conn |-> c, raised |-> FALSE, exc |-> "-", executed |-> executed,
     ret |-> ret, terminal |-> terminal]
Raise(c, exc, executed) ==
    [conn |-> c, raised |-> TRUE, exc |-> exc, executed |-> executed,
     ret |-> NoneValue, terminal |-> FALSE]

\* simplessh.py:42-53: subprocess.run(command, check=check, capture_output=True).
SshConnection_exec(c, cmd, status, check, executed) ==
    IF check /\ status # 0
    THEN Raise(c, "CalledProcessError", executed)
    ELSE Return(c, Result(status, cmd), executed, FALSE)

\* localsession.py:38-41: subprocess.call(command), its status dropped;
\* nothing is returned and the child writes to the terminal.
LocalConnection_exec(c, cmd, status, executed) ==
    Return(c, NoneValue, executed, TRUE)

\* fabricbackend.py:24-32: warn = not check; fabric's run raises
\* UnexpectedExit on a non-zero status unless warn is set.  Fabric opens the
\* connection on first use.
FabricConnection_run(c, cmd, status, check) ==
    LET c1 == [c EXCEPT !.transport_live = TRUE]
    IN IF check /\ status # 0
       THEN Raise(c1, "UnexpectedExit", TRUE)
       ELSE Return(c1, Result(status, cmd), TRUE, FALSE)

\* fabric.Connection.put / get, inherited: raise when the copy fails.
FabricConnection_transfer(c, cmd, ok) ==
    LET c1 == [c EXCEPT !.transport_live = TRUE]
    IN IF ok THEN Return(c1, Result(0, cmd), TRUE, FALSE)
       ELSE Raise(c1, "OSError", FALSE)

\* friendlyssh.py:86-90.
Connection_sftp_connect_EveryTime(c) ==
    [c EXCEPT !.sftp_live = TRUE, !.sftp_made = @ + 1]

Connection_sftp_connect_FlagNotSet(c) ==
    IF ~c.sftp_live
    THEN [c EXCEPT !.sftp_made = @ + 1]
    ELSE c

Connection_sftp_connect(c) ==
    IF ~c.sftp_live
    THEN [c EXCEPT !.sftp_live = TRUE, !.sftp_made = @ + 1]
    ELSE c

\* friendlyssh.py:92-97 and 119-125: _sftp_connect, then the SFTP copy;
\* SFTPClient.from_transport and the copy raise on a closed transport, and
\* the copy raises IOError when it fails.
Connection_transfer(c, cmd, ok) ==
    IF ~c.sftp_live /\ ~c.transport_live
    THEN Raise(c, "SSHException", FALSE)
    ELSE LET c1 == Connection_sftp_connect(c)
         IN IF ok /\ c1.transport_live
            THEN Return(c1, NoneValue, TRUE, FALSE)
            ELSE Raise(c1, "IOError", FALSE)

\* friendlyssh.py:127-129: no _sftp_connect; self._sftp is None until the
\* first transfer and a closed client after close().
Connection_chmod(c, cmd, status) ==
    IF ~c.sftp_live
    THEN Raise(c, "AttributeError", FALSE)
    ELSE IF status # 0 THEN Raise(c, "IOError", TRUE)
         ELSE Return(c, NoneValue, TRUE, FALSE)

\* friendlyssh.py:131-141: exec_command on a new channel, both streams
\* written to the local terminal, nothing returned.
Connection_run(c, cmd, status) ==
    IF ~c.transport_live
    THEN Raise(c, "SSHException", FALSE)
    ELSE Return(c, NoneValue, TRUE, TRUE)

\* pexpectssh.py:81-110: spawn the command, answer the prompts, write to the
\* log file (which raises ValueError once the file is closed) and return
\* child.before.
SshSession_exec(c, cmd, executed) ==
    IF ~c.logfile_open
    THEN Raise(c, "ValueError", executed)
    ELSE Return(c, StrValue(cmd), executed, TRUE)

\* run(command) of each backend.  Only FabricConnection.run has a check
\* parameter; passing one to the others is a TypeError before anything runs.
ConnRun(c, cmd, status, chk) ==
    CASE c.kind = "fabric" -> FabricConnection_run(c, cmd, status, chk # "false")
      [] chk # "default" -> Raise(c, "TypeError", FALSE)
      [] c.kind = "simple" -> SshConnection_exec(c, cmd, status, TRUE, TRUE)
      [] c.kind = "local" -> LocalConnection_exec(c, cmd, status, TRUE)
      [] c.kind = "paramiko" -> Connection_run(c, cmd, status)
      [] c.kind = "pexpect" -> SshSession_exec(c, cmd, TRUE)
      [] OTHER -> Raise(c, "AttributeError", FALSE)

\* put(localpath, remotepath) and get(remotepath, localpath) of each
\* backend; ok says whether the copy itself (scp, cp, SFTP) succeeds.
ConnPut(c, cmd, ok) ==
    CASE c.kind = "fabric" -> FabricConnection_transfer(c, cmd, ok)
      [] c.kind = "simple" ->
            SshConnection_exec(c, cmd, IF ok THEN 0 ELSE 1, TRUE, ok)
      [] c.kind = "local" -> LocalConnection_exec(c, cmd, IF ok THEN 0 ELSE 1, ok)
      [] c.kind = "paramiko" -> Connection_transfer(c, cmd, ok)
      [] c.kind = "pexpect" -> SshSession_exec(c, cmd, ok)
      [] OTHER -> Raise(c, "AttributeError", FALSE)

ConnGet(c, cmd, ok) ==
    CASE c.kind = "fabric" -> FabricConnection_transfer(c, cmd, ok)
      [] c.kind = "simple" ->
            SshConnection_exec(c, cmd, IF ok THEN 0 ELSE 1, TRUE, ok)
      [] c.kind = "local" -> LocalConnection_exec(c, cmd, IF ok THEN 0 ELSE 1, ok)
      [] c.kind = "paramiko" -> Connection_transfer(c, cmd, ok)
      [] c.kind = "pexpect" -> SshSession_exec(c, cmd, ok)
      [] OTHER -> Raise(c, "AttributeError", FALSE)

\* chmod(path, mode): simplessh, localsession and fabricbackend run
\* 'chmod <octal> <path>'; friendlyssh uses the SFTP client; pexpectssh's
\* SshSession has no chmod method.
ConnChmod(c, cmd, status) ==
    CASE c.kind = "fabric" -> FabricConnection_run(c, cmd, status, TRUE)
      [] c.kind = "simple" -> SshConnection_exec(c, cmd, status, TRUE, TRUE)
      [] c.kind = "local" -> LocalConnection_exec(c, cmd, status, TRUE)
      [] c.kind = "paramiko" -> Connection_chmod(c, cmd, status)
      [] OTHER -> Raise(c, "AttributeError", FALSE)

\* friendlyssh.py:143-152.
Connection_close(c) ==
    LET c1 == IF c.sftp_live
              THEN [c EXCEPT !.sftp_live = FALSE, !.released.sftp = @ + 1]
              ELSE c
        c2 == IF c1.transport_live
              THEN [c1 EXCEPT !.transport_live = FALSE, !.released.transport = @ + 1]
              ELSE c1
    IN Return(c2, NoneValue, TRUE, FALSE)

\* pexpectssh.py:144-148: 'ssh-agent -k' whenever openagent is set, then
\* logfile.close(), which does nothing on a closed file.
SshSession_close(c) ==
    LET c1 == IF c.openagent THEN [c EXCEPT !.released.agent = @ + 1] ELSE c
        c2 == IF c1.logfile_open
              THEN [c1 EXCEPT !.logfile_open = FALSE, !.released.logfile = @ + 1]
              ELSE c1
    IN Return(c2, NoneValue, TRUE, FALSE)

\* fabric.Connection.close, inherited: closes the client when connected.
FabricConnection_close(c) ==
    Return(IF c.transport_live
           THEN [c EXCEPT !.transport_live = FALSE, !.released.transport = @ + 1]
           ELSE c, NoneValue, TRUE, FALSE)

\* close(): SshConnection (simplessh.py:25-79) and LocalConnection
\* (localsession.py:27-65) define no close method.
ConnClose(c) ==
    CASE c.kind = "paramiko" -> Connection_close(c)
      [] c.kind = "pexpect" -> SshSession_close(c)
      [] c.kind = "fabric" -> FabricConnection_close(c)
      [] OTHER -> Raise(c, "AttributeError", FALSE)

\* pexpectssh.py:127-142: ssh-add; when no agent could be opened, set
\* openagent, start ssh-agent and add again.
SshSession_add(c, agent_found) ==
    IF ~c.logfile_open THEN Raise(c, "ValueError", TRUE)
    ELSE IF agent_found
         THEN Return(c, [type |-> "Int", returncode |-> 0, cmd |-> "add", stdout |-> <<>>], TRUE, TRUE)
         ELSE Return([c EXCEPT !.openagent = TRUE], NoneValue, TRUE, TRUE)


----------------------------------------------------------------------------
(* Calls on one connection object                                           *)

MaxConnCalls == 3

SelUnused ==
    /\ requested_backend = ""
    /\ construct = [b \in BackendNames |-> "ok"]
    /\ config = "none"
    /\ backends = <<>>
    /\ idx = 0
    /\ session = "none"
    /\ pc = "unused"
    /\ attempted = <<>>
    /\ messages = <<>>

\* A connection of any class, just constructed, and some files on both sides.
ConnInit ==
    /\ SelUnused
    /\ conn \in {Constructed(k) : k \in ConnKinds}
    /\ local \in {f \in [LocalPaths -> Contents \cup {Absent}] :
                    f["l1"] # "y" /\ f["l2"] # "x"}
    /\ remote \in [RemotePaths -> {Absent, "y"}]
    /\ last = NoCall
    /\ sent = NoPut
    /\ ncalls = 0
    /\ SessUnused
    /\ CallerUnused

Call(op, chk, status, lpath, rpath, r) ==
    [op |-> op, chk |-> chk, status |-> status, lpath |-> lpath, rpath |-> rpath,
     raised |-> r.raised, exc |-> r.exc, executed |-> r.executed, ret |-> r.ret,
     terminal |-> r.terminal, before |-> conn]

\* connection.run(command) or connection.run(command, check=...): the
\* command ends with some exit status.
conn_run ==
    /\ conn.kind # "none" /\ ncalls < MaxConnCalls
    /\ \E status \in ExitStatuses, chk \in CheckArgs :
         LET r == ConnRun(conn, "cmd", status, chk)
         IN /\ conn' = r.conn
            /\ last' = Call("run", chk, status, "-", "-", r)
            /\ sent' = IF r.executed THEN NoPut ELSE sent
    /\ ncalls' = ncalls + 1
    /\ UNCHANGED <<remote, local>>
    /\ UNCHANGED <<selVars, sessVars>>
    /\ UNCHANGED callerVars

\* connection.put(localpath, remotepath): the copy succeeds only when the
\* local file exists, and may fail anyway (no remote parent, transport).
conn_put ==
    /\ conn.kind # "none" /\ ncalls < MaxConnCalls
    /\ \E lp \in LocalPaths, rp \in RemotePaths, fine \in BOOLEAN :
         LET ok == fine /\ local[lp] # Absent
             r == ConnPut(conn, "put", ok)
         IN /\ conn' = r.conn
            /\ remote' = IF r.executed THEN [remote EXCEPT ![rp] = local[lp]] ELSE remote
            /\ last' = Call("put", "default", IF ok THEN 0 ELSE 1, lp, rp, r)
            /\ sent' = IF ~r.raised THEN [rpath |-> rp, content |-> local[lp]]
                       ELSE IF sent.rpath = rp THEN NoPut ELSE sent
    /\ ncalls' = ncalls + 1
    /\ UNCHANGED local
    /\ UNCHANGED <<selVars, sessVars>>
    /\ UNCHANGED callerVars

\* connection.get(remotepath, localpath).
conn_get ==
    /\ conn.kind # "none" /\ ncalls < MaxConnCalls
    /\ \E lp \in LocalPaths, rp \in RemotePaths, fine \in BOOLEAN :
         LET ok == fine /\ remote[rp] # Absent
             r == ConnGet(conn, "get", ok)
         IN /\ conn' = r.conn
            /\ local' = IF r.executed THEN [local EXCEPT ![lp] = remote[rp]] ELSE local
            /\ last' = Call("get", "default", IF ok THEN 0 ELSE 1, lp, rp, r)
    /\ ncalls' = ncalls + 1
    /\ UNCHANGED <<remote, sent>>
    /\ UNCHANGED <<selVars, sessVars>>
    /\ UNCHANGED callerVars

\* connection.chmod(path, mode).
conn_chmod ==
    /\ conn.kind # "none" /\ ncalls < MaxConnCalls
    /\ \E rp \in RemotePaths, status \in ExitStatuses :
         LET r == ConnChmod(conn, "chmod", status)
         IN /\ conn' = r.conn
            /\ last' = Call("chmod", "default", status, "-", rp, r)
    /\ ncalls' = ncalls + 1
    /\ UNCHANGED <<remote, local, sent>>
    /\ UNCHANGED <<selVars, sessVars>>
    /\ UNCHANGED callerVars

\* connection.close().
conn_close ==
    /\ conn.kind # "none" /\ ncalls < MaxConnCalls
    /\ LET r == ConnClose(conn)
       IN /\ conn' = r.conn
          /\ last' = Call("close", "default", 0, "-", "-", r)
    /\ ncalls' = ncalls + 1
    /\ UNCHANGED <<remote, local, sent>>
    /\ UNCHANGED <<selVars, sessVars>>
    /\ UNCHANGED callerVars

\* SshSession.add() of the pexpect backend.
conn_add ==
    /\ conn.kind = "pexpect" /\ ncalls < MaxConnCalls
    /\ \E agent_found \in BOOLEAN :
         LET r == SshSession_add(conn, agent_found)
         IN /\ conn' = r.conn
            /\ last' = Call("add", "default", 0, "-", "-", r)
    /\ ncalls' = ncalls + 1
    /\ UNCHANGED <<remote, local, sent>>
    /\ UNCHANGED <<selVars, sessVars>>
    /\ UNCHANGED callerVars

ConnNext == conn_run \/ conn_put \/ conn_get \/ conn_chmod \/ conn_close \/ conn_add

SpecConn == ConnInit /\ [][ConnNext]_vars

----------------------------------------------------------------------------
(* Properties of the connection backends                                    *)

\* C4: run with check=false never raises and returns the Result, whatever
\* the exit status; run with check=true (or no check argument) raises if
\* and only if the exit status is non-zero.
C4_RunCheckContract ==
    last.op = "run" =>
        /\ last.chk = "false" => (~last.raised /\ last.ret.type = "Result")
        /\ last.chk # "false" => (last.raised <=> last.status # 0)

\* C8: a get that follows a put to the same remote path, with nothing
\* written to that path in between, leaves the local target with the
\* content the put sent.
C8_PutGetRoundTrip ==
    (last.op = "get" /\ ~last.raised /\ sent.rpath = last.rpath) =>
        local[last.lpath] = sent.content

\* C9: close() never fails, also when called again, and no resource is
\* released more than once.
C9_CloseIdempotent ==
    /\ last.op = "close" => ~last.raised
    /\ \A resource \in DOMAIN conn.released : conn.released[resource] <= 1

\* C13: on every backend a run that returns hands back a Result that
\* carries the exit status of the command (and its captured output).
C13_RunReturnsResult ==
    (last.op = "run" /\ last.chk = "default" /\ ~last.raised) =>
        /\ last.ret.type = "Result"
        /\ last.ret.returncode = last.status
        /\ ~last.terminal

\* C24: on every backend but pexpect, run writes nothing of the remote
\* command's output to the local terminal, and a run that returns hands the
\* captured output back in a Result.
C24_OutputCapturedNotStreamed ==
    (last.op = "run" /\ last.before.kind # "pexpect") =>
        /\ ~last.terminal
        /\ (~last.raised => last.ret.type = "Result")

----------------------------------------------------------------------------
(* GrassSession: grasssession.py, and the older class in g.remote.py        *)

Impls == {"grasssession", "g.remote"}
\* grass_version as given by the caller; 0 is None.
GrassVersions == {0, 710, 720}
\* The directory argument; "" is None.
GivenDirectories == {"", "/data/work"}
\* What gs.append_uuid can append.
UUIDs == {"u1", "u2"}
S_IRWXU == 448

NoUuid == [seed |-> "", n |-> 0]
NoFile == [base |-> "", prefix |-> "", uuid |-> NoUuid, ext |-> ""]
NoPath == [dir |-> "", file |-> NoFile]
DirPath(d) == [dir |-> d, file |-> NoFile]
\* "{dir}/{file}".format(dir=self.directory, file=filename)
ChildPath(d, f) == [dir |-> d, file |-> f]

\* One step of a session call: a call on the connection (run, put, get,
\* chmod) or something done locally, with how it ended.
Event(op, cmd, path, lfile, mode, code, item, status, r) ==
    [op |-> op, cmd |-> cmd, path |-> path, lfile |-> lfile, mode |-> mode,
     code |-> code, item |-> item, status |-> status, executed |-> r.executed,
     raised |-> r.raised, ret |-> r.ret]

ConnOps == {"run", "put", "get", "chmod"}

\* The state threaded through the steps of one session call.
Start(c, u) ==
    [conn |-> c, trace |-> <<>>, raised |-> FALSE, exc |-> "-", ret |-> NoneValue,
     seed |-> u, nscripts |-> 0, item |-> ""]

Step(a, r, ev) ==
    [a EXCEPT !.conn = r.conn, !.trace = Append(@, ev), !.raised = r.raised,
              !.exc = r.exc, !.ret = r.ret]

\* The next step runs only when the step before did not raise.
Bind(A, F(_)) == UNION {IF a.raised THEN {a} ELSE F(a) : a \in A}

\* self.connection.run(command): the command ends with some exit status.
DoRun(a, cmd, path) ==
    {LET r == ConnRun(a.conn, cmd, st, "default")
     IN Step(a, r, Event("run", cmd, path, NoFile, 0, <<>>, a.item, st, r)) :
        st \in ExitStatuses}

\* self.connection.put(local, remote): the copy succeeds or fails.
DoPut(a, lfile, path) ==
    {LET r == ConnPut(a.conn, "put", ok)
     IN Step(a, r, Event("put", "put", path, lfile, 0, <<>>, a.item,
                         IF ok THEN 0 ELSE 1, r)) : ok \in BOOLEAN}

\* self.connection.get(remote, local).
DoGet(a, path, lfile) ==
    {LET r == ConnGet(a.conn, "get", ok)
     IN Step(a, r, Event("get", "get", path, lfile, 0, <<>>, a.item,
                         IF ok THEN 0 ELSE 1, r)) : ok \in BOOLEAN}

\* self.connection.chmod(path, mode).
DoChmod(a, path, mode) ==
    {LET r == ConnChmod(a.conn, "chmod", st)
     IN Step(a, r, Event("chmod", "chmod", path, NoFile, mode, <<>>, a.item, st, r)) :
        st \in ExitStatuses}

\* gs.run_command(module, ...) on the local machine: raises
\* CalledModuleError when the module ends with a non-zero status.
DoLocalCommand(a, cmd, lfile) ==
    {LET r == IF st # 0 THEN Raise(a.conn, "CalledModuleError", TRUE)
              ELSE Return(a.conn, NoneValue, TRUE, FALSE)
     IN Step(a, r, Event("local", cmd, NoPath, lfile, 0, <<>>, a.item, st, r)) :
        st \in ExitStatuses}

\* io.open/write/close of a script and os.remove; print(result.stderr).
\* The value held in result is kept.
DoLocalFile(a, cmd, lfile, code) ==
    LET r == Return(a.conn, a.ret, TRUE, FALSE)
    IN Step(a, r, Event("local", cmd, NoPath, lfile, 0, code, a.item, 0, r))

\* An attribute read on a value that does not have it (None.returncode).
RaiseHere(a, exc) == [a EXCEPT !.raised = TRUE, !.exc = exc, !.ret = NoneValue]

Whitespace == {"\n", " ", "\t"}

Strip_KeepsAll(out) == out

\* str.strip(): drop the leading and the trailing whitespace.
Strip(out) ==
    LET keep == {i \in DOMAIN out : out[i] \notin Whitespace}
    IN IF keep = {} THEN <<>>
       ELSE SubSeq(out, CHOOSE i \in keep : \A j \in keep : i <= j,
                        CHOOSE i \in keep : \A j \in keep : j <= i)

\* The text of an output, its pieces joined, as one path.
RECURSIVE PathText(_)
PathText(out) == IF out = <<>> THEN "" ELSE out[1] \o PathText(Tail(out))

\* A value given to run_command or written into code: its characters (a
\* quote character is always a chunk of its own) or a remote path.
Value(chars) == [chars |-> chars, path |-> NoPath]
PathValue(p) == [chars |-> <<"{path}">>, path |-> p]

\* grasssession.py:225, "'%s'" % str(arg).
QuoteArg(v) == [key |-> "", quote |-> "'", value |-> v]

QuoteKeyword_AlwaysSingle(k, v) == [key |-> k, quote |-> "'", value |-> v]

\* grasssession.py:226-233: double quotes when the value holds a single
\* quote, single quotes otherwise.
QuoteKeyword(k, v) ==
    [key |-> k,
     quote |-> IF \E i \in DOMAIN v.chars : v.chars[i] = "'" THEN "\"" ELSE "'",
     value |-> v]

\* grasssession.py:225-234 (g.remote.py:476-484): the code of run_command,
\* one statement calling run_command with the quoted parameters.
CommandCode(module, kwargs) ==
    <<[func |-> "run_command",
       params |-> <<QuoteArg(module)>> \o
                  [i \in DOMAIN kwargs |-> QuoteKeyword(kwargs[i][1], kwargs[i][2])]]>>

\* grasssession.py:264-265: one line of single-quoted arguments.
BashCommandCode(command) ==
    <<[func |-> "bash", params |-> [i \in DOMAIN command |-> QuoteArg(command[i])]]>>

\* The start of the code that unique_script_name keeps in the name.
CodePrefix(code) == IF code = <<>> THEN "x" ELSE code[1].func

\* grasssession.py:32-39, unique_script_name; g.remote.py:455 and 491 use
\* the fixed names pack_script.py and pack_script.sh.
ScriptName(S, a, code, ext) ==
    IF S.impl = "grasssession"
    THEN [base |-> "g_remote_script", prefix |-> CodePrefix(code),
          uuid |-> [seed |-> a.seed, n |-> a.nscripts + 1], ext |-> ext]
    ELSE [base |-> "pack_script", prefix |-> "", uuid |-> NoUuid, ext |-> ext]

\* The remote command of run_script: grasssession.py:184-190 always uses
\* '<grass> <mapset> --exec <script>', g.remote.py:441-444 always uses
\* 'GRASS_BATCH_JOB=<script> <grass> -text <mapset>'.
ExecCommand(S) == IF S.impl = "grasssession" THEN "exec_modern" ELSE "exec_legacy"

\* What run_script hands back: grasssession.py:193 returns the result of the
\* execution step; g.remote.py:428-446 returns nothing.
RunScriptReturn_OfRemoval(S, exec_ret, last_ret) ==
    IF S.impl = "grasssession" THEN last_ret ELSE NoneValue

RunScriptReturn(S, exec_ret, last_ret) ==
    IF S.impl = "grasssession" THEN exec_ret ELSE NoneValue

run_script_ChmodFirst(S, a, script, remove) ==
    LET rp == ChildPath(S.directory, script)
    IN Bind(Bind(Bind(DoChmod(a, rp, S_IRWXU),
                      LAMBDA b : DoPut(b, script, rp)),
                 LAMBDA b : DoRun(b, ExecCommand(S), rp)),
            LAMBDA b :
                IF remove
                THEN {IF d.raised THEN d
                      ELSE [d EXCEPT !.ret = RunScriptReturn(S, b.ret, d.ret)] :
                        d \in DoRun(b, "rm", rp)}
                ELSE {[b EXCEPT !.ret = RunScriptReturn(S, b.ret, b.ret)]})

\* grasssession.py:170-193 (g.remote.py:428-446): put, chmod, run, and the
\* removal of the remote copy when remove is set.
run_script(S, a, script, remove) ==
    LET rp == ChildPath(S.directory, script)
    IN Bind(Bind(Bind(DoPut(a, script, rp),
                      LAMBDA b : DoChmod(b, rp, S_IRWXU)),
                 LAMBDA b : DoRun(b, ExecCommand(S), rp)),
            LAMBDA b :
                IF remove
                THEN {IF d.raised THEN d
                      ELSE [d EXCEPT !.ret = RunScriptReturn(S, b.ret, d.ret)] :
                        d \in DoRun(b, "rm", rp)}
                ELSE {[b EXCEPT !.ret = RunScriptReturn(S, b.ret, b.ret)]})

\* The remove argument run_code and run_bash_code give to run_script.
RunCodeRemove == TRUE

\* grasssession.py:195-218 and 237-257 (g.remote.py:448-469, 487-505):
\* write the local script, run_script(script_name, remove=True), os.remove.
run_code(S, a, code, ext) ==
    LET name == ScriptName(S, a, code, ext)
        a1 == [DoLocalFile(a, "write_script", name, code) EXCEPT !.nscripts = @ + 1]
    IN {IF b.raised THEN b ELSE DoLocalFile(b, "remove_script", name, <<>>) :
          b \in run_script(S, a1, name, RunCodeRemove)}

\* grasssession.py:220-235.
run_command(S, a, module, kwargs) == run_code(S, a, CommandCode(module, kwargs), "py")

\* grasssession.py:259-265.
run_bash_command(S, a, command) == run_code(S, a, BashCommandCode(command), "sh")

GrassSession_close_ClosesConnection(S, a) ==
    LET b == [a EXCEPT !.conn = ConnClose(a.conn).conn]
    IN IF S.impl = "g.remote" \/ S.delete_directory
       THEN {[d EXCEPT !.ret = IF d.raised THEN d.ret ELSE NoneValue] :
               d \in DoRun(b, "rm -r", DirPath(S.directory))}
       ELSE {b}

\* grasssession.py:267-270: remove the directory only when it was made by
\* mktemp.  g.remote.py:515-517: remove the directory, always.
GrassSession_close(S, a) ==
    IF S.impl = "g.remote" \/ S.delete_directory
    THEN {[d EXCEPT !.ret = IF d.raised THEN d.ret ELSE NoneValue] :
            d \in DoRun(a, "rm -r", DirPath(S.directory))}
    ELSE {a}

\* grasssession.py:49-82: with a directory, 'ls {directory}/..' and
\* 'mkdir -p {directory}' (the braces are sent as written: the strings are
\* not formatted), the directory kept; without, 'mktemp -d', its stripped
\* output kept and marked for deletion.
\* g.remote.py:324-342: with a directory nothing is run; without, the fixed
\* /tmp/gremote and 'mkdir'.
GrassSession_init(impl, directory, version, a) ==
    LET S0 == [impl |-> impl, state |-> "ready", given |-> directory,
               directory |-> "", delete_directory |-> FALSE,
               grass_version |-> IF impl = "grasssession" THEN version ELSE 0]
        literal == ChildPath("{directory}", NoFile)
        done(b, d, del) ==
            [a |-> [b EXCEPT !.ret = IF b.raised THEN b.ret ELSE NoneValue],
             S |-> IF b.raised THEN [S0 EXCEPT !.state = "failed"]
                   ELSE [S0 EXCEPT !.directory = d, !.delete_directory = del]]
    IN CASE impl = "grasssession" /\ directory # "" ->
              {done(b, directory, FALSE) :
                 b \in Bind(DoRun(a, "ls ..", literal),
                            LAMBDA c : DoRun(c, "mkdir -p", literal))}
         [] impl = "grasssession" /\ directory = "" ->
              {IF b.raised THEN done(b, "", FALSE)
               ELSE IF b.ret.type # "Result"
                    THEN done(RaiseHere(b, "AttributeError"), "", FALSE)
                    ELSE done(b, PathText(Strip(b.ret.stdout)), TRUE) :
                 b \in DoRun(a, "mktemp", NoPath)}
         [] impl = "g.remote" /\ directory # "" -> {done(a, directory, FALSE)}
         [] OTHER ->
              {done(b, FixedDir, FALSE) : b \in DoRun(a, "mkdir", DirPath(FixedDir))}

\* grasssession.py:138-139: result.returncode is read (None and str have no
\* such attribute) and result.stderr printed when it is non-zero.
\* g.remote.py:395 does not look at the result.
UnpackCheck(S, a) ==
    IF S.impl # "grasssession" THEN {a}
    ELSE IF a.ret.type # "Result" THEN {RaiseHere(a, "AttributeError")}
    ELSE IF a.ret.returncode # 0
         THEN {DoLocalFile(a, "print_stderr", NoFile, <<>>)}
         ELSE {a}

DataFile(name, suffix) == [base |-> name, prefix |-> "", uuid |-> NoUuid, ext |-> suffix]

put_element_PutBeforePack(S, a, name, pack, unpack, suffix) ==
    LET filename == DataFile(name, suffix)
        remote_filename == ChildPath(S.directory, filename)
    IN Bind(Bind(Bind(DoPut([a EXCEPT !.item = name], filename, remote_filename),
                      LAMBDA b : DoLocalCommand(b, pack, filename)),
                 LAMBDA b : run_command(S, b, Value(<<unpack>>),
                                <<<<"input", PathValue(remote_filename)>>,
                                  <<"overwrite", Value(<<"True">>)>>>>)),
            LAMBDA b : UnpackCheck(S, b))

\* grasssession.py:133-139 (g.remote.py:389-395), the body of the loop of
\* put_elements for one name.
put_element(S, a, name, pack, unpack, suffix) ==
    LET filename == DataFile(name, suffix)
        remote_filename == ChildPath(S.directory, filename)
    IN Bind(Bind(Bind(DoLocalCommand([a EXCEPT !.item = name], pack, filename),
                      LAMBDA b : DoPut(b, filename, remote_filename)),
                 LAMBDA b : run_command(S, b, Value(<<unpack>>),
                                <<<<"input", PathValue(remote_filename)>>,
                                  <<"overwrite", Value(<<"True">>)>>>>)),
            LAMBDA b : UnpackCheck(S, b))

get_element_GetBeforePack(S, a, name, pack, unpack, suffix) ==
    LET filename == DataFile(name, suffix)
        remote_filename == ChildPath(S.directory, filename)
    IN Bind(Bind(DoGet([a EXCEPT !.item = name], remote_filename, filename),
                 LAMBDA b : run_command(S, b, Value(<<pack>>),
                     <<<<"input", Value(<<name>>)>>,
                       <<"output", PathValue(remote_filename)>>,
                       <<"overwrite", Value(<<"True">>)>>>>)),
            LAMBDA b : DoLocalCommand(b, unpack, filename))

\* grasssession.py:147-151 (g.remote.py:403-409), the body of the loop of
\* get_elements for one name.
get_element(S, a, name, pack, unpack, suffix) ==
    LET filename == DataFile(name, suffix)
        remote_filename == ChildPath(S.directory, filename)
    IN Bind(Bind(run_command(S, [a EXCEPT !.item = name], Value(<<pack>>),
                     <<<<"input", Value(<<name>>)>>,
                       <<"output", PathValue(remote_filename)>>,
                       <<"overwrite", Value(<<"True">>)>>>>),
                 LAMBDA b : DoGet(b, remote_filename, filename)),
            LAMBDA b : DoLocalCommand(b, unpack, filename))

----------------------------------------------------------------------------
(* Calls on one GrassSession object                                         *)

MaxElements == 2
Names == <<"a", "b", "c", "d">>
ElementLists == {SubSeq(Names, 1, n) : n \in 0..MaxElements}

\* put_rasters/get_rasters and put_vectors/get_vectors,
\* grasssession.py:153-167.
MapKinds ==
    {[pack |-> "r.pack", unpack |-> "r.unpack", suffix |-> ".rpack"],
     [pack |-> "v.pack", unpack |-> "v.unpack", suffix |-> ".vpack"]}

UserScript == [base |-> "job", prefix |-> "", uuid |-> NoUuid, ext |-> "sh"]
\* Values a caller gives to run_command: plain, with a single quote, with
\* both quote characters.
UserValues == {Value(<<"test">>), Value(<<"it", "'", "s">>),
               Value(<<"\"", "'">>)}
\* Positional arguments a caller gives to run_command: a module name, and a
\* string that is a single quote.
UserModules == {"g.region", "'"}
UserCode == {<<[func |-> "print", params |-> <<>>]>>,
             <<[func |-> "print", params |-> <<>>],
               [func |-> "exit", params |-> <<>>]>>}

SessInit ==
    /\ SelUnused
    /\ conn \in {Constructed(k) : k \in ConnKinds}
    /\ remote = [p \in RemotePaths |-> Absent]
    /\ local = [p \in LocalPaths |-> Absent]
    /\ last = NoCall
    /\ sent = NoPut
    /\ ncalls = 0
    /\ SessUnused
    /\ CallerUnused

NoArg == [elements |-> <<>>, script |-> NoFile, remove |-> FALSE, code |-> <<>>,
          module |-> "", kwargs |-> <<>>, command |-> <<>>]

\* The record of a session call: the method, where it stands ("called",
\* "item" and "body" inside the loops of put_elements and get_elements,
\* "done" when it returned or raised), and how it ended.
SessionCall(op, phase, a, arg) ==
    [op |-> op, phase |-> phase, raised |-> a.raised, exc |-> a.exc, ret |-> a.ret,
     after_close |-> closed, arg |-> arg]

\* The caller is between two calls on the session.
Idle == res.op = "-" /\ loop.op = "-"

\* One call of a method of the session, from the call to its end.
Called(op, a, arg) ==
    /\ conn' = a.conn
    /\ trace' = a.trace
    /\ res' = SessionCall(op, "done", a, arg)
    /\ UNCHANGED <<remote, local, last, sent, ncalls>>
    /\ UNCHANGED selVars

\* GrassSession(connection, grassdata, location, mapset, directory, ...).
gs_init ==
    /\ conn.kind # "none" /\ gs.state = "none" /\ Idle
    /\ \E impl \in Impls, d \in GivenDirectories, v \in GrassVersions, u \in UUIDs :
         \E o \in GrassSession_init(impl, d, v, Start(conn, u)) :
            /\ gs' = o.S
            /\ Called("init", o.a, NoArg)
    /\ UNCHANGED <<closed, loop>>
    /\ UNCHANGED callerVars

\* put_elements(elements, pack, unpack, suffix) and get_elements(...) are
\* called: the for loop starts.
gs_elements_call ==
    /\ gs.state = "ready" /\ Idle
    /\ \E op \in {"put_elements", "get_elements"}, elements \in ElementLists,
          k \in MapKinds :
         /\ loop' = [op |-> op, elements |-> elements, kind |-> k, i |-> 0]
         /\ res' = SessionCall(op, "called", Start(conn, ""),
                               [NoArg EXCEPT !.elements = elements])
    /\ trace' = <<>>
    /\ UNCHANGED <<gs, closed, connVars, selVars>>
    /\ UNCHANGED callerVars

\* for name in elements: the next name, or the end of the loop and of the
\* call (grasssession.py:132 and 146).
gs_elements_next ==
    /\ loop.op # "-" /\ res.phase \in {"called", "body"}
    /\ IF loop.i < Len(loop.elements)
       THEN /\ loop' = [loop EXCEPT !.i = @ + 1]
            /\ res' = [res EXCEPT !.phase = "item"]
       ELSE /\ loop' = NoLoop
            /\ res' = [res EXCEPT !.phase = "done", !.ret = NoneValue]
    /\ trace' = <<>>
    /\ UNCHANGED <<gs, closed, connVars, selVars>>
    /\ UNCHANGED callerVars

\* The body of the loop of put_elements for the current name; an exception
\* leaves the loop and the call.
gs_put_elements_body ==
    /\ loop.op = "put_elements" /\ res.phase = "item"
    /\ \E u \in UUIDs :
         \E a \in put_element(gs, Start(conn, u), loop.elements[loop.i],
                              loop.kind.pack, loop.kind.unpack, loop.kind.suffix) :
            /\ conn' = a.conn
            /\ trace' = a.trace
            /\ res' = [res EXCEPT !.phase = IF a.raised THEN "done" ELSE "body",
                                  !.raised = a.raised, !.exc = a.exc, !.ret = a.ret]
            /\ loop' = IF a.raised THEN NoLoop ELSE loop
    /\ UNCHANGED <<gs, closed, remote, local, last, sent, ncalls, selVars>>
    /\ UNCHANGED callerVars

\* The body of the loop of get_elements for the current name.
gs_get_elements_body ==
    /\ loop.op = "get_elements" /\ res.phase = "item"
    /\ \E u \in UUIDs :
         \E a \in get_element(gs, Start(conn, u), loop.elements[loop.i],
                              loop.kind.pack, loop.kind.unpack, loop.kind.suffix) :
            /\ conn' = a.conn
            /\ trace' = a.trace
            /\ res' = [res EXCEPT !.phase = IF a.raised THEN "done" ELSE "body",
                                  !.raised = a.raised, !.exc = a.exc, !.ret = a.ret]
            /\ loop' = IF a.raised THEN NoLoop ELSE loop
    /\ UNCHANGED <<gs, closed, remote, local, last, sent, ncalls, selVars>>
    /\ UNCHANGED callerVars

gs_run_script ==
    /\ gs.state = "ready" /\ Idle
    /\ \E remove \in BOOLEAN, u \in UUIDs :
         \E a \in run_script(gs, Start(conn, u), UserScript, remove) :
            Called("run_script", a, [NoArg EXCEPT !.script = UserScript,
                                                  !.remove = remove])
    /\ UNCHANGED <<gs, closed, loop>>
    /\ UNCHANGED callerVars

\* run_code(code) and run_bash_code(code).
gs_run_code ==
    /\ gs.state = "ready" /\ Idle
    /\ \E code \in UserCode, ext \in {"py", "sh"}, u \in UUIDs :
         \E a \in run_code(gs, Start(conn, u), code, ext) :
            Called(IF ext = "py" THEN "run_code" ELSE "run_bash_code", a,
                   [NoArg EXCEPT !.code = code])
    /\ UNCHANGED <<gs, closed, loop>>
    /\ UNCHANGED callerVars

gs_run_command ==
    /\ gs.state = "ready" /\ Idle
    /\ \E v \in UserValues, n \in 0..1, u \in UUIDs, m \in UserModules :
         LET kwargs == IF n = 0 THEN <<>> ELSE <<<<"region", v>>>>
         IN \E a \in run_command(gs, Start(conn, u), Value(<<m>>), kwargs) :
               Called("run_command", a, [NoArg EXCEPT !.module = m,
                                                      !.kwargs = kwargs])
    /\ UNCHANGED <<gs, closed, loop>>
    /\ UNCHANGED callerVars

gs_run_bash_command ==
    /\ gs.state = "ready" /\ Idle
    /\ \E v \in UserValues, u \in UUIDs :
         LET command == <<Value(<<"g.region">>), v>>
         IN \E a \in run_bash_command(gs, Start(conn, u), command) :
               Called("run_bash_command", a, [NoArg EXCEPT !.command = command])
    /\ UNCHANGED <<gs, closed, loop>>
    /\ UNCHANGED callerVars

gs_close ==
    /\ gs.state = "ready" /\ Idle
    /\ \E a \in GrassSession_close(gs, Start(conn, "")) :
         Called("close", a, NoArg)
    /\ closed' = TRUE
    /\ UNCHANGED <<gs, loop>>
    /\ UNCHANGED callerVars

\* The call has ended (returned or raised, the caller having caught the
\* exception) and the caller goes on to its next statement.
gs_caller_continues ==
    /\ res.op # "-" /\ res.phase = "done"
    /\ res' = [op |-> "-"]
    /\ trace' = <<>>
    /\ UNCHANGED <<gs, closed, loop, connVars, selVars>>
    /\ UNCHANGED callerVars

SessNext ==
    \/ gs_init \/ gs_elements_call \/ gs_elements_next \/ gs_put_elements_body
    \/ gs_get_elements_body \/ gs_run_script \/ gs_run_code \/ gs_run_command
    \/ gs_run_bash_command \/ gs_close \/ gs_caller_continues

SpecSession == SessInit /\ [][SessNext]_vars

----------------------------------------------------------------------------
(* Properties of the session layer                                          *)

ExecCommands == {"exec_modern", "exec_legacy"}
StagingAndExecutionOps ==
    {"put_elements", "get_elements", "run_script", "run_code", "run_command",
     "run_bash_code", "run_bash_command"}

\* The call the state records has ended, or has run the body of its loop.
CallActed == res.op # "-" /\ res.phase \in {"body", "done"}

\* C3: a session created without a directory removes, on close(), exactly
\* its working directory with one recursive removal; a session created with
\* an explicit directory issues no removal of that directory on close().
C3_EphemeralOnlyRemoved ==
    (res.op = "close") =>
        IF gs.given = ""
        THEN /\ Len(trace) = 1
             /\ trace[1].op = "run" /\ trace[1].cmd = "rm -r"
             /\ trace[1].path = DirPath(gs.directory)
        ELSE \A k \in DOMAIN trace :
                ~(trace[k].cmd = "rm -r" /\ trace[k].path.dir = gs.directory)

\* C5: in put_elements, when the remote unpack step of a dataset ends with a
\* non-zero exit status, the call does not stop (the datasets after it are
\* still staged) and the stderr of the failing step is printed.
C5_UnpackFailureContinues ==
    (res.op = "put_elements") =>
        \A k \in DOMAIN trace :
            (trace[k].op = "run" /\ trace[k].cmd \in ExecCommands
                /\ trace[k].status # 0)
            => /\ ~res.raised
               /\ \E j \in DOMAIN trace : j > k /\ trace[j].cmd = "print_stderr"

\* C6: after close(), every staging or execution operation fails at once
\* and issues no command and no transfer on the connection.
C6_FailFastAfterClose ==
    (CallActed /\ res.op \in StagingAndExecutionOps /\ res.after_close) =>
        /\ res.raised
        /\ \A k \in DOMAIN trace : trace[k].op \notin ConnOps

\* C7: run_script issues the legacy GRASS_BATCH_JOB command when the given
\* version is absent or below 720, and the modern --exec command when the
\* version is 720 or above.
C7_GrammarByVersion ==
    \A k \in DOMAIN trace :
        (trace[k].op = "run" /\ trace[k].cmd \in ExecCommands) =>
            trace[k].cmd = IF gs.grass_version = 0 \/ gs.grass_version < 720
                           THEN "exec_legacy" ELSE "exec_modern"

\* The steps of run_code for one script, in order.
CodePathSteps(name) ==
    LET rp == ChildPath(gs.directory, name)
    IN <<[op |-> "local", cmd |-> "write_script", path |-> NoPath, lfile |-> name],
         [op |-> "put", cmd |-> "put", path |-> rp, lfile |-> name],
         [op |-> "chmod", cmd |-> "chmod", path |-> rp, lfile |-> NoFile],
         [op |-> "run", cmd |-> "exec_modern", path |-> rp, lfile |-> NoFile],
         [op |-> "run", cmd |-> "rm", path |-> rp, lfile |-> NoFile],
         [op |-> "local", cmd |-> "remove_script", path |-> NoPath, lfile |-> name]>>

\* C10: run_command of grasssession.py writes exactly one statement, the
\* call of run_command with the module in single quotes and each keyword
\* value in single quotes (double quotes when the value holds a single
\* quote); it runs it by the steps of run_code (write, put, chmod, execute,
\* remove the remote copy, remove the local script), stopping only at a step
\* that raises; and when it returns, it returns what the execution step
\* returned.
C10_RunCommandOneStatement ==
    (res.op = "run_command" /\ gs.impl = "grasssession") =>
        LET name == trace[1].lfile
            code == trace[1].code
            kw == res.arg.kwargs
            steps == CodePathSteps(name)
        IN /\ Len(trace) \in 1..6
           /\ Len(code) = 1
           /\ code[1].func = "run_command"
           /\ Len(code[1].params) = 1 + Len(kw)
           /\ code[1].params[1] =
                 [key |-> "", quote |-> "'", value |-> Value(<<res.arg.module>>)]
           /\ \A i \in DOMAIN kw :
                 LET p == code[1].params[i + 1]
                 IN /\ p.key = kw[i][1] /\ p.value = kw[i][2]
                    /\ p.quote = IF "'" \in {kw[i][2].chars[j] :
                                             j \in DOMAIN kw[i][2].chars}
                                 THEN "\"" ELSE "'"
           /\ name.ext = "py"
           /\ \A k \in DOMAIN trace :
                 /\ trace[k].op = steps[k].op /\ trace[k].cmd = steps[k].cmd
                 /\ trace[k].path = steps[k].path /\ trace[k].lfile = steps[k].lfile
                 /\ (k < Len(trace) => ~trace[k].raised)
           /\ (Len(trace) < 6 => res.raised /\ trace[Len(trace)].raised)
           /\ (~res.raised => Len(trace) = 6 /\ res.ret = trace[4].ret)

\* run_command with a keyword value holding a single quote returned the
\* Result of the execution step.
C10_Witness ==
    /\ res.op = "run_command" /\ gs.impl = "grasssession" /\ ~res.raised
    /\ Len(res.arg.kwargs) = 1
    /\ res.arg.kwargs[1][2] = Value(<<"it", "'", "s">>)
    /\ Len(trace) = 6
    /\ res.ret.type = "Result" /\ res.ret = trace[4].ret /\ res.ret # trace[5].ret

\* C12: a put or get whose copy fails raises to the caller, on every
\* backend, so that no later step of the session call runs after it.
C12_FailedTransferRaises ==
    \A k \in DOMAIN trace :
        (trace[k].op \in {"put", "get"} /\ trace[k].status # 0) =>
            /\ trace[k].raised
            /\ k = Len(trace)

\* C14: run_code and run_bash_code remove the local script they wrote in
\* every outcome of run_script, also when put, chmod or the execution raises.
C14_LocalScriptAlwaysRemoved ==
    (res.op \in {"run_code", "run_bash_code"}) =>
        /\ trace[1].cmd = "write_script"
        /\ \E k \in DOMAIN trace :
              /\ trace[k].cmd = "remove_script"
              /\ trace[k].lfile = trace[1].lfile

\* The steps of run_script for one script, in order.
RunScriptSteps(script, remove) ==
    LET rp == ChildPath(gs.directory, script)
    IN <<[op |-> "put", cmd |-> "put", path |-> rp, lfile |-> script, mode |-> 0],
         [op |-> "chmod", cmd |-> "chmod", path |-> rp, lfile |-> NoFile,
          mode |-> S_IRWXU],
         [op |-> "run", cmd |-> ExecCommand(gs), path |-> rp, lfile |-> NoFile,
          mode |-> 0]>>
       \o (IF remove
           THEN <<[op |-> "run", cmd |-> "rm", path |-> rp, lfile |-> NoFile,
                   mode |-> 0]>>
           ELSE <<>>)

\* C15: run_script puts the script, makes it executable, executes it and,
\* only when remove is set, removes the remote copy, in this order, each
\* step made only after the one before returned; the run_script of
\* grasssession.py returns what the execution step returned, never what the
\* removal returned.
C15_RunScriptOrder ==
    (res.op = "run_script") =>
        LET steps == RunScriptSteps(res.arg.script, res.arg.remove)
        IN /\ Len(trace) \in 1..Len(steps)
           /\ \A k \in DOMAIN trace :
                 /\ trace[k].op = steps[k].op /\ trace[k].cmd = steps[k].cmd
                 /\ trace[k].path = steps[k].path /\ trace[k].lfile = steps[k].lfile
                 /\ trace[k].mode = steps[k].mode
                 /\ (k < Len(trace) => ~trace[k].raised)
           /\ (Len(trace) < Len(steps) => res.raised /\ trace[Len(trace)].raised)
           /\ (~res.raised /\ gs.impl = "grasssession") =>
                 (Len(trace) = Len(steps) /\ res.ret = trace[3].ret)

\* run_script with remove set went through its four steps and returned the
\* Result of the execution, which is not that of the removal.
C15_Witness ==
    /\ res.op = "run_script" /\ gs.impl = "grasssession" /\ ~res.raised
    /\ res.arg.remove
    /\ Len(trace) = 4
    /\ trace[4].cmd = "rm"
    /\ res.ret.type = "Result" /\ res.ret = trace[3].ret /\ res.ret # trace[4].ret

\* C16: GrassSession.close() does not close the connection: over a call
\* of close() no resource of the connection is released, none that was open
\* is closed, and with the class of grasssession.py the connection object
\* is exactly as before the call.
C16_CloseKeepsConnection ==
    [][(res.op = "-" /\ res'.op = "close") =>
          /\ conn'.released = conn.released
          /\ conn'.sftp_live = conn.sftp_live
          /\ conn'.logfile_open = conn.logfile_open
          /\ (conn.transport_live => conn'.transport_live)
          /\ (gs.impl = "grasssession" => conn' = conn)]_vars

\* close() of a session on a temporary directory has run its rm -r and the
\* transport of the connection is still open, nothing released.
C16_Witness ==
    /\ res.op = "close" /\ ~res.raised
    /\ gs.delete_directory
    /\ Len(trace) = 1 /\ trace[1].cmd = "rm -r"
    /\ conn.transport_live
    /\ \A resource \in DOMAIN conn.released : conn.released[resource] = 0

----------------------------------------------------------------------------
(* main: get_session, then one GrassSession on the connection it returned   *)

\* g.remote.py:580: session = get_session(options); main now holds the
\* connection the selected backend constructed.
main_get_session_returned ==
    /\ pc = "returned"
    /\ conn = NoConn
    /\ conn' = Constructed(session)
    /\ pc' = "main"
    /\ UNCHANGED <<requested_backend, construct, config, backends, idx, session,
                   attempted, messages>>
    /\ UNCHANGED <<remote, local, last, sent, ncalls>>
    /\ UNCHANGED sessVars
    /\ UNCHANGED callerVars

MainNext == SelNext \/ main_get_session_returned \/ SessNext

SpecMain == SelInit /\ [][MainNext]_vars

\* C17: the backend is selected exactly once, before anything is staged.
\* No candidate is attempted twice; nothing is run or staged before
\* get_session returned; and once main holds the connection, whatever the
\* session calls do (also when a step on the connection raises),
\* get_session is not entered again, no candidate is attempted again and
\* the connection stays the one object of the selected backend.
C17_SelectionOnce ==
    /\ [](\A i, j \in 1..Len(attempted) : attempted[i] = attempted[j] => i = j)
    /\ [](pc # "main" => (conn = NoConn /\ gs = NoSession /\ trace = <<>>))
    /\ [](pc = "main" => (conn.kind = session /\ session = attempted[Len(attempted)]))
    /\ [][pc = "main" =>
            /\ pc' = "main"
            /\ attempted' = attempted /\ session' = session
            /\ backends' = backends /\ idx' = idx /\ messages' = messages
            /\ conn'.kind = conn.kind]_vars

\* After close(), a later run_script raised on the connection of the backend
\* selected after a skipped candidate, and each candidate was attempted once.
C17_Witness ==
    /\ pc = "main"
    /\ attempted = <<"paramiko", "simple">>
    /\ conn.kind = "simple"
    /\ closed
    /\ res.op = "run_script" /\ res.raised

\* C21: in get_elements, when the remote pack step of a dataset ends with a
\* non-zero exit status, the failure is logged and the call does not stop:
\* the get and the local unpack of that dataset and the steps of the
\* datasets after it are still made.
C21_PackFailureContinues ==
    (res.op = "get_elements") =>
        \A k \in DOMAIN trace :
            (trace[k].op = "run" /\ trace[k].cmd \in ExecCommands
                /\ trace[k].status # 0)
            => /\ ~res.raised
               /\ \E j \in DOMAIN trace : j > k /\ trace[j].cmd = "print_stderr"
               /\ \E j \in DOMAIN trace : j > k /\ trace[j].op = "get"

\* C22: a session of grasssession.py created with a given directory first
\* lists the parent of that directory and then makes that directory with
\* mkdir -p, both commands naming the given path; when the listing fails
\* the directory is not made and the session is not ready; a ready session
\* has made both steps and is not marked for deletion.
C22_GivenDirectoryProbedThenMade ==
    (res.op = "init" /\ gs.impl = "grasssession" /\ gs.given # "") =>
        /\ Len(trace) \in 1..2
        /\ trace[1].op = "run" /\ trace[1].cmd = "ls .."
        /\ trace[1].path.dir = gs.given
        /\ Len(trace) = 2 =>
              (trace[2].op = "run" /\ trace[2].cmd = "mkdir -p"
                  /\ trace[2].path.dir = gs.given)
        /\ trace[1].status # 0 => (Len(trace) = 1 /\ gs.state # "ready")
        /\ gs.state = "ready" =>
              (Len(trace) = 2 /\ gs.directory = gs.given /\ ~gs.delete_directory)

----------------------------------------------------------------------------
(* Invocations of run_code / run_bash_code that overlap in one directory    *)

Invocations == {1, 2}

\* unique_script_name(code, ext) with the uuid drawn, or the fixed name.
InvocationScript(impl, u, code, ext) ==
    ScriptName([impl |-> impl], [seed |-> u, nscripts |-> 0], code, ext)

ScriptNames ==
    {InvocationScript(impl, u, code, ext) :
        impl \in Impls, u \in UUIDs, code \in UserCode, ext \in {"py", "sh"}}

NoInvocation(impl) ==
    [pc |-> "idle", impl |-> impl, seed |-> "", name |-> NoFile, code |-> <<>>,
     sent |-> 0]

\* Two callers are about to call run_code on sessions of the same class; the
\* local directory holds no script.
OverlapInit ==
    /\ SelUnused
    /\ ConnUnused
    /\ SessUnused
    /\ inv \in {[i \in Invocations |-> NoInvocation(impl)] : impl \in Impls}
    /\ workdir = [n \in ScriptNames |-> 0]
    /\ mainpc = "-"
    /\ sshsession = NoSshSession
    /\ child = NoChild

\* grasssession.py:200-215 (g.remote.py:455-467): the name, then io.open(
\* name, "w"), the writes and close.  The file is created or truncated.
\* A uuid4 value drawn by one invocation is not drawn by another one.
rc_write_script(i) ==
    /\ inv[i].pc = "idle"
    /\ \E code \in UserCode, ext \in {"py", "sh"}, u \in UUIDs :
         LET name == InvocationScript(inv[i].impl, u, code, ext)
         IN /\ \A j \in Invocations : inv[j].seed # u
            /\ inv' = [inv EXCEPT ![i].pc = "written", ![i].seed = u,
                                  ![i].name = name, ![i].code = code]
            /\ workdir' = [workdir EXCEPT ![name] = i]
    /\ UNCHANGED <<selVars, connVars, sessVars>>
    /\ UNCHANGED <<mainpc, sshsession, child>>

\* grasssession.py:216 (g.remote.py:468): run_script(script_name,
\* remove=True); connection.put reads the local file of that name, and a
\* step of run_script may raise.
rc_run_script(i) ==
    /\ inv[i].pc = "written"
    /\ IF workdir[inv[i].name] = 0
       THEN inv' = [inv EXCEPT ![i].pc = "raised"]
       ELSE \E ok \in BOOLEAN :
               inv' = [inv EXCEPT ![i].pc = IF ok THEN "ran" ELSE "raised",
                                  ![i].sent = workdir[inv[i].name]]
    /\ UNCHANGED workdir
    /\ UNCHANGED <<selVars, connVars, sessVars>>
    /\ UNCHANGED <<mainpc, sshsession, child>>

\* grasssession.py:217 (g.remote.py:469): os.remove(script_name), which
\* raises when there is no such file.
rc_remove_script(i) ==
    /\ inv[i].pc = "ran"
    /\ IF workdir[inv[i].name] = 0
       THEN /\ inv' = [inv EXCEPT ![i].pc = "raised"]
            /\ UNCHANGED workdir
       ELSE /\ inv' = [inv EXCEPT ![i].pc = "done"]
            /\ workdir' = [workdir EXCEPT ![inv[i].name] = 0]
    /\ UNCHANGED <<selVars, connVars, sessVars>>
    /\ UNCHANGED <<mainpc, sshsession, child>>

OverlapNext ==
    \E i \in Invocations :
        rc_write_script(i) \/ rc_run_script(i) \/ rc_remove_script(i)

SpecOverlap == OverlapInit /\ [][OverlapNext]_vars

\* The invocation holds a local script: written, not yet removed.
HoldsScript(i) == inv[i].pc \in {"written", "ran"}

\* C23: two invocations of run_code or run_bash_code that overlap use
\* different local script names, so the script of an invocation stays as it
\* wrote it until it removes it, and what it puts is its own script.
C23_DistinctScriptNames ==
    /\ \A i, j \in Invocations :
          (i # j /\ HoldsScript(i) /\ HoldsScript(j)) => inv[i].name # inv[j].name
    /\ \A i \in Invocations :
          /\ HoldsScript(i) => workdir[inv[i].name] = i
          /\ inv[i].sent \in {0, i}

\* The steps of the body of put_elements for one name, in order: the local
\* pack, the put of the artifact, then the steps of the remote unpack.
PutElementSteps(name, kind) ==
    <<[op |-> "local", cmd |-> kind.pack], [op |-> "put", cmd |-> "put"],
      [op |-> "local", cmd |-> "write_script"], [op |-> "put", cmd |-> "put"],
      [op |-> "chmod", cmd |-> "chmod"], [op |-> "run", cmd |-> ExecCommand(gs)],
      [op |-> "run", cmd |-> "rm"], [op |-> "local", cmd |-> "remove_script"],
      [op |-> "local", cmd |-> "print_stderr"]>>

\* C25: the body of put_elements for a name packs it locally into
\* <name><suffix>, puts that file to <directory>/<name><suffix> and runs the
\* remote unpack on that same remote path, in this order, each step made
\* only after the one before returned; the names are taken in list order,
\* and the body of a name starts only after the body of the name before it
\* has ended with its unpack executed.
C25_PutElementsOrder ==
    [][/\ (res.op = "put_elements" /\ res.phase = "item"
              /\ res'.phase \in {"body", "done"}) =>
            LET name == loop.elements[loop.i]
                file == [base |-> name, prefix |-> "", uuid |-> NoUuid,
                         ext |-> loop.kind.suffix]
                rp == [dir |-> gs.directory, file |-> file]
                steps == PutElementSteps(name, loop.kind)
                tr == trace'
            IN /\ Len(tr) \in 1..Len(steps)
               /\ \A k \in DOMAIN tr :
                     /\ tr[k].op = steps[k].op /\ tr[k].cmd = steps[k].cmd
                     /\ tr[k].item = name
                     /\ (k < Len(tr) => ~tr[k].raised)
               /\ tr[1].lfile = file
               /\ Len(tr) >= 2 => (tr[2].lfile = file /\ tr[2].path = rp)
               /\ Len(tr) >= 3 =>
                     /\ Len(tr[3].code) = 1
                     /\ tr[3].code[1].params[1].value = Value(<<loop.kind.unpack>>)
                     /\ tr[3].code[1].params[2].key = "input"
                     /\ tr[3].code[1].params[2].value.path = rp
               /\ (res'.phase = "body") => Len(tr) >= 8
       /\ (loop.op = "put_elements" /\ res'.phase = "item") =>
            /\ loop'.i = loop.i + 1
            /\ loop'.elements = loop.elements
            /\ loop.i > 0 =>
                  (res.phase = "body" /\ ~res.raised
                      /\ \E k \in DOMAIN trace :
                            trace[k].cmd \in ExecCommands /\ ~trace[k].raised)]_vars

\* The body of put_elements for the second name of the list has run all its
\* steps.
C25_Witness ==
    /\ res.op = "put_elements" /\ res.phase = "body"
    /\ loop.i = 2
    /\ Len(trace) = 8
    /\ trace[1].item = loop.elements[2]
    /\ trace[1].cmd = loop.kind.pack /\ trace[2].op = "put"
    /\ trace[6].cmd \in ExecCommands

\* The steps of the body of get_elements for one name, in order: the steps
\* of the remote pack, the get of the artifact, then the local unpack.
GetElementSteps(name, kind) ==
    <<[op |-> "local", cmd |-> "write_script"], [op |-> "put", cmd |-> "put"],
      [op |-> "chmod", cmd |-> "chmod"], [op |-> "run", cmd |-> ExecCommand(gs)],
      [op |-> "run", cmd |-> "rm"], [op |-> "local", cmd |-> "remove_script"],
      [op |-> "get", cmd |-> "get"], [op |-> "local", cmd |-> kind.unpack]>>

\* C26: the body of get_elements for a name runs the remote pack of that
\* name writing <directory>/<name><suffix>, then gets that remote file into
\* the local <name><suffix>, then unpacks that local file, in this order:
\* the get is made only after the pack was executed and returned, the local
\* unpack only after the get returned.
C26_GetElementsOrder ==
    [][(res.op = "get_elements" /\ res.phase = "item"
           /\ res'.phase \in {"body", "done"}) =>
         LET name == loop.elements[loop.i]
             file == [base |-> name, prefix |-> "", uuid |-> NoUuid,
                      ext |-> loop.kind.suffix]
             rp == [dir |-> gs.directory, file |-> file]
             steps == GetElementSteps(name, loop.kind)
             tr == trace'
         IN /\ Len(tr) \in 1..Len(steps)
            /\ \A k \in DOMAIN tr :
                  /\ tr[k].op = steps[k].op /\ tr[k].cmd = steps[k].cmd
                  /\ tr[k].item = name
                  /\ (k < Len(tr) => ~tr[k].raised)
            /\ Len(tr[1].code) = 1
            /\ tr[1].code[1].params[1].value = Value(<<loop.kind.pack>>)
            /\ tr[1].code[1].params[2].key = "input"
            /\ tr[1].code[1].params[2].value = Value(<<name>>)
            /\ tr[1].code[1].params[3].key = "output"
            /\ tr[1].code[1].params[3].value.path = rp
            /\ Len(tr) >= 7 => (tr[7].path = rp /\ tr[7].lfile = file)
            /\ Len(tr) >= 8 => tr[8].lfile = file
            /\ (res'.phase = "body") => Len(tr) = 8]_vars

\* The body of get_elements for a name has run the remote pack, the get and
\* the local unpack.
C26_Witness ==
    /\ res.op = "get_elements" /\ res.phase = "body"
    /\ Len(trace) = 8
    /\ trace[4].cmd \in ExecCommands /\ trace[4].status = 0
    /\ trace[7].op = "get" /\ trace[7].status = 0
    /\ trace[8].cmd = loop.kind.unpack

----------------------------------------------------------------------------
(* main of g.remote.py, statement by statement                              *)

\* self.full_location, self.full_permanent and the windows directory of
\* self.full_mapset (g.remote.py:330-335, 371).
FullLocation == "<grassdata>/<location>"
FullPermanent == "<grassdata>/<location>/PERMANENT"
FullMapset == "<grassdata>/<location>/<mapset>"
MapsetWindows == "<grassdata>/<location>/<mapset>/windows"

\* g.remote.py:354-355.
LocationFiles == <<"DEFAULT_WIND", "MYNAME", "PROJ_EPSG", "PROJ_INFO", "PROJ_UNITS">>
RegionName == "g_remote_current_region"

\* g.remote.py:354-359: put each file of PERMANENT.
RECURSIVE PutLocationFiles(_, _)
PutLocationFiles(a, i) ==
    IF i > Len(LocationFiles) THEN {a}
    ELSE Bind(DoPut(a, DataFile(LocationFiles[i], ""),
                    ChildPath(FullPermanent, DataFile(LocationFiles[i], ""))),
              LAMBDA b : PutLocationFiles(b, i + 1))

\* g.remote.py:344-362.
create_location(S, a) ==
    Bind(Bind(Bind(Bind(DoRun(a, "mkdir", DirPath(FullLocation)),
                        LAMBDA b : DoRun(b, "mkdir", DirPath(FullPermanent))),
                   LAMBDA b : DoLocalCommand(b, "g.gisenv", NoFile)),
              LAMBDA b : PutLocationFiles(b, 1)),
         LAMBDA b : DoRun(b, "grass -text -c -e", DirPath(FullMapset)))

\* g.remote.py:365-375.
put_region(S, a) ==
    LET region_file == DataFile(RegionName, "")
    IN Bind(Bind(Bind(DoLocalCommand(a, "g.region", region_file),
                      LAMBDA b : DoRun(b, "mkdir", DirPath(MapsetWindows))),
                 LAMBDA b : DoPut(b, region_file, ChildPath(MapsetWindows, region_file))),
            LAMBDA b : run_command(S, b, Value(<<"g.region">>),
                                   <<<<"region", Value(<<RegionName>>)>>>>))

MainBefore_RetrieveFirst ==
    [GrassSession |-> "-", create_location |-> "GrassSession",
     put_region |-> "create_location", put_rasters |-> "put_region",
     put_vectors |-> "put_rasters", get_rasters |-> "put_vectors",
     get_vectors |-> "get_rasters", execute |-> "get_vectors",
     close |-> "execute"]

\* The statements of main on the session, g.remote.py:590-606, each with
\* the one before it.
MainBefore ==
    [GrassSession |-> "-", create_location |-> "GrassSession",
     put_region |-> "create_location", put_rasters |-> "put_region",
     put_vectors |-> "put_rasters", execute |-> "put_vectors",
     get_rasters |-> "execute", get_vectors |-> "get_rasters",
     close |-> "get_vectors"]

\* The statement before has returned and main is at statement s.
MainAt(s) == pc = "main" /\ mainpc = MainBefore[s] /\ Idle

\* One statement of main that is one call, from the call to its end.
MainCalled(s, op, a) ==
    /\ mainpc' = s
    /\ Called(op, a, NoArg)
    /\ UNCHANGED <<closed, loop, inv, workdir, sshsession, child>>

\* g.remote.py:590-593: the GrassSession of g.remote.py on the connection
\* get_session returned, with options['remote_workdir'].
main_GrassSession ==
    /\ MainAt("GrassSession")
    /\ \E d \in GivenDirectories :
         \E o \in GrassSession_init("g.remote", d, 0, Start(conn, "")) :
            /\ gs' = o.S
            /\ MainCalled("GrassSession", "init", o.a)

\* g.remote.py:594-595: create_location() when the flag l is given.
main_create_location ==
    /\ MainAt("create_location")
    /\ \E l \in BOOLEAN :
         \E a \in (IF l THEN create_location(gs, Start(conn, ""))
                   ELSE {Start(conn, "")}) :
            MainCalled("create_location", IF l THEN "create_location" ELSE "skip", a)
    /\ UNCHANGED gs

\* g.remote.py:596.
main_put_region ==
    /\ MainAt("put_region")
    /\ \E a \in put_region(gs, Start(conn, "")) :
         MainCalled("put_region", "put_region", a)
    /\ UNCHANGED gs

\* g.remote.py:597-598 and 604-605: put_rasters(raster_inputs),
\* put_vectors(vector_inputs), get_rasters(raster_outputs) and
\* get_vectors(vector_outputs) are called: the for loop starts.
main_elements_call ==
    /\ \E s \in {"put_rasters", "put_vectors", "get_rasters", "get_vectors"},
          elements \in ElementLists :
         LET op == IF s \in {"put_rasters", "put_vectors"}
                   THEN "put_elements" ELSE "get_elements"
             k == CHOOSE k \in MapKinds :
                     k.pack = IF s \in {"put_rasters", "get_rasters"}
                              THEN "r.pack" ELSE "v.pack"
         IN /\ MainAt(s)
            /\ mainpc' = s
            /\ loop' = [op |-> op, elements |-> elements, kind |-> k, i |-> 0]
            /\ res' = SessionCall(op, "called", Start(conn, ""),
                                  [NoArg EXCEPT !.elements = elements])
    /\ trace' = <<>>
    /\ UNCHANGED <<gs, closed, connVars, selVars, inv, workdir, sshsession, child>>

\* g.remote.py:599-602: run_script(script_path), or run_bash_command(
\* single_command), or nothing when neither was given.
main_execute ==
    /\ MainAt("execute")
    /\ \/ \E a \in run_script(gs, Start(conn, ""), UserScript, FALSE) :
             MainCalled("execute", "run_script", a)
       \/ \E v \in UserValues :
             \E a \in run_bash_command(gs, Start(conn, ""), <<Value(<<"g.region">>), v>>) :
                MainCalled("execute", "run_bash_command", a)
       \/ MainCalled("execute", "skip", Start(conn, ""))
    /\ UNCHANGED gs

\* g.remote.py:606.
main_close ==
    /\ MainAt("close")
    /\ \E a \in GrassSession_close(gs, Start(conn, "")) :
         /\ mainpc' = "close"
         /\ Called("close", a, NoArg)
    /\ closed' = TRUE
    /\ UNCHANGED <<gs, loop, inv, workdir, sshsession, child>>

main_statement_returned_CatchesAll ==
    /\ pc = "main" /\ mainpc \notin {"-", "end"}
    /\ res.op # "-" /\ res.phase = "done"
    /\ IF mainpc = "close"
       THEN /\ mainpc' = "end"
            /\ UNCHANGED <<res, trace>>
       ELSE /\ mainpc' = IF res.raised THEN "get_vectors" ELSE mainpc
            /\ res' = [op |-> "-"]
            /\ trace' = <<>>
    /\ UNCHANGED <<gs, closed, loop, connVars, selVars, inv, workdir, sshsession, child>>

\* A statement returned and main goes on to the next one; after close()
\* main ends.  An exception is not caught in main: the run stops there.
main_statement_returned ==
    /\ pc = "main" /\ mainpc \notin {"-", "end"}
    /\ res.op # "-" /\ res.phase = "done" /\ ~res.raised
    /\ IF mainpc = "close"
       THEN /\ mainpc' = "end"
            /\ UNCHANGED <<res, trace>>
       ELSE /\ mainpc' = mainpc
            /\ res' = [op |-> "-"]
            /\ trace' = <<>>
    /\ UNCHANGED <<gs, closed, loop, connVars, selVars, inv, workdir, sshsession, child>>

\* The loops of the staging statements of main.
main_elements_loop ==
    /\ pc = "main" /\ mainpc # "-"
    /\ gs_elements_next \/ gs_put_elements_body \/ gs_get_elements_body

RunNext ==
    \/ SelNext \/ main_get_session_returned
    \/ main_GrassSession \/ main_create_location \/ main_put_region
    \/ main_elements_call \/ main_elements_loop \/ main_execute \/ main_close
    \/ main_statement_returned

SpecRun == SelInit /\ [][RunNext]_vars

\* The order of a run: selection, session initialization, staging of the
\* inputs, execution, retrieval of the outputs, close.
RunOrder ==
    <<"-", "GrassSession", "create_location", "put_region", "put_rasters",
      "put_vectors", "execute", "get_rasters", "get_vectors", "close", "end">>

RunRank(s) == CHOOSE k \in DOMAIN RunOrder : RunOrder[k] = s

\* What a statement of main may do on the session.
StatementOps ==
    [GrassSession |-> {"init"}, create_location |-> {"create_location", "skip"},
     put_region |-> {"put_region"}, put_rasters |-> {"put_elements"},
     put_vectors |-> {"put_elements"},
     execute |-> {"run_script", "run_bash_command", "skip"},
     get_rasters |-> {"get_elements"}, get_vectors |-> {"get_elements"},
     close |-> {"close"}, end |-> {"close"}]

\* C27: in every run of main the backend is selected first, then the
\* session is initialized, the raster and the vector inputs are staged, the
\* script or the command is executed, the raster and the vector outputs are
\* retrieved and the session is closed: main only moves from one of these
\* statements to the next one, an input is staged only at the staging
\* statements, an output retrieved only at the retrieval statements, which
\* come after the execution, and nothing is done on the session before
\* get_session returned.
C27_MainOrder ==
    /\ [](pc # "main" => (mainpc = "-" /\ gs = NoSession /\ res.op = "-"))
    /\ []((mainpc # "-" /\ res.op # "-") => res.op \in StatementOps[mainpc])
    /\ [](gs.state = "none" <=> mainpc = "-")
    /\ [](closed => mainpc \in {"close", "end"})
    /\ [][mainpc' # mainpc => RunRank(mainpc') = RunRank(mainpc) + 1]_vars

\* An output was retrieved: the inputs were staged and the execution made
\* before, the session is not closed yet.
C27_Witness ==
    /\ pc = "main" /\ mainpc = "get_rasters"
    /\ res.op = "get_elements" /\ res.phase = "body"
    /\ \E k \in DOMAIN trace : trace[k].op = "get" /\ trace[k].status = 0
    /\ ~closed

\* The recursive removal of the working directory of the session is among
\* the steps of the statement under way.
RemovalIssued ==
    \E k \in DOMAIN trace :
        /\ trace[k].op = "run" /\ trace[k].cmd = "rm -r"
        /\ trace[k].path = DirPath(gs.directory)

\* A statement from the session initialization to the one before close()
\* raised.
RunAborted ==
    /\ pc = "main" /\ mainpc \notin {"-", "close", "end"}
    /\ res.op # "-" /\ res.raised

\* The run is over: get_session did not return a connection, a statement
\* raised, or main went past close().
RunOver ==
    \/ pc \in {"fatal", "raised"}
    \/ res.op # "-" /\ res.raised
    \/ mainpc = "end"

-----------------------------------------------------------------------------
(* chmod(path, mode) of the backends                                        *)

\* The modes a caller passes: the permission bits of stat.
MaxMode == 511
Modes == 0..MaxMode

\* The backends whose chmod runs the chmod program through their run.
ShellOutKinds == {"simple", "local", "fabric"}

\* format(mode, "o") as the sequence of its characters, taken as digits:
\* base 8, most significant first, no prefix, "0" for zero.
RECURSIVE OctalDigits_Decimal(_)
OctalDigits_Decimal(mode) ==
    IF mode < 10 THEN <<mode>>
    ELSE Append(OctalDigits_Decimal(mode \div 10), mode % 10)

RECURSIVE OctalDigits(_)
OctalDigits(mode) ==
    IF mode < 8 THEN <<mode>>
    ELSE Append(OctalDigits(mode \div 8), mode % 8)

\* simplessh.py:79, localsession.py:65, fabricbackend.py:41: the command
\* f"chmod {mode:o} {path}".
ChmodCommand(path, mode) ==
    [cmd |-> "chmod", digits |-> OctalDigits(mode), path |-> path]

\* What chmod(path, mode) hands to run on a backend: the shell-out backends
\* one command; friendlyssh.py:129 none (the request goes over SFTP);
\* pexpectssh.py has no chmod.
ChmodCommands(kind, path, mode) ==
    IF kind \in ShellOutKinds THEN <<ChmodCommand(path, mode)>> ELSE <<>>

\* The record of one chmod call.
ChmodCall(mode, status, rpath, r) ==
    [op |-> "chmod", mode |-> mode, status |-> status, rpath |-> rpath,
     commands |-> ChmodCommands(conn.kind, rpath, mode),
     raised |-> r.raised, exc |-> r.exc, executed |-> r.executed,
     ret |-> r.ret, before |-> conn]

ChmodInit == SessInit

\* connection.chmod(path, mode) by a caller of the backend, on the
\* connection as constructed.
chmod_call ==
    /\ gs = NoSession /\ last = NoCall
    /\ \E mode \in Modes, rp \in RemotePaths, status \in ExitStatuses :
         LET r == ConnChmod(conn, ChmodCommand(rp, mode).cmd, status)
         IN /\ conn' = r.conn
            /\ last' = ChmodCall(mode, status, rp, r)
    /\ ncalls' = ncalls + 1
    /\ UNCHANGED <<remote, local, sent, selVars, sessVars, callerVars>>

\* The chmod made by run_script of a session on the backend.
chmod_by_run_script ==
    /\ last = NoCall
    /\ gs_init \/ gs_run_script \/ gs_caller_continues

ChmodNext == chmod_call \/ chmod_by_run_script

SpecChmod == ChmodInit /\ [][ChmodNext]_vars

\* The number a sequence of octal digits writes.
RECURSIVE OctalValue(_)
OctalValue(digits) ==
    IF digits = <<>> THEN 0
    ELSE 8 * OctalValue(SubSeq(digits, 1, Len(digits) - 1)) + digits[Len(digits)]

\* The one command of a chmod of a shell-out backend: chmod, the mode in
\* octal digits, the path.
IsOctalChmod(commands, path, mode) ==
    /\ Len(commands) = 1
    /\ commands[1].cmd = "chmod" /\ commands[1].path = path
    /\ \A k \in DOMAIN commands[1].digits : commands[1].digits[k] \in 0..7
    /\ Len(commands[1].digits) > 1 => commands[1].digits[1] # 0
    /\ OctalValue(commands[1].digits) = mode
    /\ mode = 448 => commands[1].digits = <<7, 0, 0>>

\* C29: for every mode, chmod(path, mode) of simplessh, localsession and
\* fabricbackend runs exactly one remote command, chmod with the mode written
\* in octal digits and the path (448, read/write/execute for the owner, is
\* written 700); the chmod of run_script is on the remote copy of the script
\* and always asks for stat.S_IRWXU.
C29_ChmodOctal ==
    /\ (last.op = "chmod" /\ last.before.kind \in ShellOutKinds) =>
          /\ last.executed
          /\ IsOctalChmod(last.commands, last.rpath, last.mode)
    /\ (res.op = "run_script") =>
          /\ Cardinality({k \in DOMAIN trace : trace[k].op = "chmod"}) <= 1
          /\ \A k \in DOMAIN trace :
                (trace[k].op = "run" /\ trace[k].cmd = ExecCommand(gs)) =>
                    \E j \in 1..(k - 1) : trace[j].op = "chmod"
          /\ \A k \in DOMAIN trace :
                (trace[k].op = "chmod") =>
                    /\ trace[k].mode = S_IRWXU
                    /\ trace[k].path = ChildPath(gs.directory, res.arg.script)
                    /\ conn.kind \in ShellOutKinds =>
                          IsOctalChmod(ChmodCommands(conn.kind, trace[k].path,
                                                     trace[k].mode),
                                       trace[k].path, S_IRWXU)

\* chmod(path, stat.S_IRWXU) on a shell-out backend ran 'chmod 700 path'.
C29_Witness ==
    /\ last.op = "chmod" /\ last.before.kind \in ShellOutKinds
    /\ last.mode = S_IRWXU /\ ~last.raised
    /\ last.commands = <<[cmd |-> "chmod", digits |-> <<7, 0, 0>>,
                          path |-> last.rpath]>>

-----------------------------------------------------------------------------
(* The quoting of run_command                                               *)

\* "'" in str(val).
HoldsSingleQuote(v) == \E j \in DOMAIN v.chars : v.chars[j] = "'"

\* C30: in the statement run_command writes, every keyword value stands
\* between single quotes, unless the value holds a single quote: then it
\* stands between double quotes; every positional argument stands between
\* single quotes, whatever it holds.
C30_RunCommandQuoting ==
    (res.op = "run_command") =>
        LET params == trace[1].code[1].params
            kw == res.arg.kwargs
        IN /\ Len(params) = 1 + Len(kw)
           /\ params[1].key = "" /\ params[1].value = Value(<<res.arg.module>>)
           /\ params[1].quote = "'"
           /\ \A i \in DOMAIN kw :
                 /\ params[i + 1].key = kw[i][1] /\ params[i + 1].key # ""
                 /\ params[i + 1].value = kw[i][2]
                 /\ HoldsSingleQuote(kw[i][2]) => params[i + 1].quote = "\""
                 /\ ~HoldsSingleQuote(kw[i][2]) => params[i + 1].quote = "'"

\* run_command was called with a positional argument and a keyword value
\* that both hold a single quote, on the session class of g.remote.py.
C30_Witness ==
    /\ res.op = "run_command" /\ gs.impl = "g.remote"
    /\ res.arg.module = "'"
    /\ Len(res.arg.kwargs) = 1 /\ HoldsSingleQuote(res.arg.kwargs[1][2])
    /\ trace[1].code[1].params[1].quote = "'"
    /\ trace[1].code[1].params[2].quote = "\""

\* C31: every positional argument and keyword value of run_command, and
\* every element of run_bash_command, stands in the generated code between
\* quote characters that do not occur in the text between them, so that
\* each argument is one intact quoted token.
C31_QuoteNotInsideToken ==
    (res.op \in {"run_command", "run_bash_command"}) =>
        \A s \in DOMAIN trace[1].code :
            \A i \in DOMAIN trace[1].code[s].params :
                LET p == trace[1].code[s].params[i]
                IN \A j \in DOMAIN p.value.chars : p.value.chars[j] # p.quote

-----------------------------------------------------------------------------
(* The SFTP client of friendlyssh.py                                        *)

\* C32: on the paramiko backend, whatever a GrassSession calls on its
\* Connection, a chmod is called only while the SFTP client is established:
\* a put or get that returned comes before it in the same call and the
\* connection was not closed since; and chmod itself never establishes the
\* client: in every state a session reaches, a chmod leaves the SFTP client
\* and its count as they are.
C32_ChmodOnlyWithSftp ==
    (conn.kind = "paramiko") =>
        /\ \A k \in DOMAIN trace :
              (trace[k].op = "chmod") =>
                  /\ trace[k].executed
                  /\ conn.sftp_live /\ conn.released.sftp = 0
                  /\ \E j \in 1..(k - 1) :
                        trace[j].op \in {"put", "get"} /\ ~trace[j].raised
        /\ \A st \in ExitStatuses :
              LET r == Connection_chmod(conn, "chmod", st)
              IN /\ r.conn.sftp_live = conn.sftp_live
                 /\ r.conn.sftp_made = conn.sftp_made

\* run_script on paramiko got to its chmod, after the put that made the
\* SFTP client.
C32_Witness ==
    /\ conn.kind = "paramiko" /\ res.op = "run_script"
    /\ Len(trace) >= 2 /\ trace[1].op = "put" /\ trace[2].op = "chmod"
    /\ conn.sftp_live /\ conn.sftp_made = 1

\* C33: on the paramiko backend, before close(), the put and get calls make
\* the SFTP client exactly once, at the first transfer, over the transport
\* opened at construction: no other call makes one, every later transfer
\* finds it live and makes none; after close() neither the SFTP client nor
\* the transport is recorded as live.
C33_SftpClientMadeOnce ==
    (conn.kind = "paramiko" /\ last.op # "-") =>
        /\ conn.sftp_made <= 1
        /\ conn.released.transport = 0 =>
              /\ conn.transport_live
              /\ conn.sftp_live <=> conn.sftp_made = 1
              /\ last.op \in {"put", "get"} =>
                    /\ conn.sftp_live /\ conn.sftp_made = 1
                    /\ last.before.sftp_live <=> last.before.sftp_made = 1
              /\ last.op \notin {"put", "get"} =>
                    conn.sftp_made = last.before.sftp_made
        /\ last.op = "close" => (~conn.sftp_live /\ ~conn.transport_live)
        /\ conn.released.transport > 0 => (~conn.sftp_live /\ ~conn.transport_live)

\* A second transfer on paramiko found the client the first one made.
C33_Witness ==
    /\ conn.kind = "paramiko" /\ last.op \in {"put", "get"} /\ ~last.raised
    /\ last.before.sftp_live /\ last.before.sftp_made = 1
    /\ conn.sftp_live /\ conn.sftp_made = 1 /\ conn.transport_live

-----------------------------------------------------------------------------
(* SshSession._exec of pexpectssh.py, step by step                          *)

\* Calls of _exec on one SshSession.
MaxExecs == 3

\* pexpectssh.py:62-69, self.keys by position: 'authenticity', 'password:',
\* 'Enter passphrase', '@@@@@@@@@@@@', 'Command not found.', pexpect.EOF.
Keys == 0..5
KeyAuthenticity == 0
KeyPassword == 1
KeyPassphrase == 2
KeyWarning == 3

\* What child.expect(self.keys) does: the position of the key that matched,
\* or, Timeout standing for it, pexpect.TIMEOUT raised when none did in time.
Timeout == 6
ExpectOutcomes == Keys \cup {Timeout}

\* The passwords of the model: "" is no password (None or empty).
Passwords == {"", "pw"}

\* pexpectssh.py:46-70: an SshSession with or without a password.
ExecInit ==
    /\ SelUnused
    /\ ConnUnused
    /\ SessUnused
    /\ inv = <<>>
    /\ workdir = <<>>
    /\ mainpc = "-"
    /\ sshsession \in {[NoSshSession EXCEPT !.password = p] : p \in Passwords}
    /\ child = NoChild

ExecUnchanged == UNCHANGED <<selVars, connVars, sessVars, inv, workdir, mainpc>>

\* seen = child.expect(self.keys) with outcome o, _exec going on at q.
Expect(o, q) ==
    IF o = Timeout
    THEN [child EXCEPT !.pc = "raised"]
    ELSE [child EXCEPT !.pc = q, !.seen = o]

\* pexpectssh.py:83, reached from run, put and get (112-125): spawn.
exec_spawn ==
    /\ child.pc \in {"-", "returned", "raised"}
    /\ sshsession.nexec < MaxExecs
    /\ \E op \in {"run", "put", "get"} :
         child' = [NoChild EXCEPT !.pc = "expect", !.op = op, !.alive = TRUE]
    /\ sshsession' = [sshsession EXCEPT !.nexec = @ + 1]
    /\ ExecUnchanged

\* pexpectssh.py:86-87.
exec_expect ==
    /\ child.pc = "expect"
    /\ \E o \in ExpectOutcomes : child' = Expect(o, "authenticity")
    /\ UNCHANGED sshsession
    /\ ExecUnchanged

\* pexpectssh.py:88-90: answer the host-key question.
exec_authenticity ==
    /\ child.pc = "authenticity"
    /\ child' = IF child.seen = KeyAuthenticity
                THEN [child EXCEPT !.pc = "expect_after_yes", !.yes = @ + 1]
                ELSE [child EXCEPT !.pc = "password"]
    /\ UNCHANGED sshsession
    /\ ExecUnchanged

\* pexpectssh.py:90.
exec_expect_after_yes ==
    /\ child.pc = "expect_after_yes"
    /\ \E o \in ExpectOutcomes : child' = Expect(o, "password")
    /\ UNCHANGED sshsession
    /\ ExecUnchanged

exec_password_AsksEveryTime ==
    /\ child.pc = "password"
    /\ IF child.seen \in {KeyPassword, KeyPassphrase}
       THEN \E typed \in Passwords, alive \in BOOLEAN :
               /\ sshsession' = [sshsession EXCEPT !.password = typed,
                                                   !.asked = @ + 1]
               /\ child' = [child EXCEPT !.pc = "isalive", !.sent = @ + 1,
                                         !.line = typed, !.asked = TRUE,
                                         !.alive = alive]
       ELSE /\ child' = [child EXCEPT !.pc = "warning"]
            /\ UNCHANGED sshsession
    /\ ExecUnchanged

\* pexpectssh.py:91-97: on a password or passphrase prompt ask the user when
\* no password is stored, send the stored password, wait.
exec_password ==
    /\ child.pc = "password"
    /\ IF child.seen \in {KeyPassword, KeyPassphrase}
       THEN \E typed \in Passwords, alive \in BOOLEAN :
               LET ask == sshsession.password = ""
                   password == IF ask THEN typed ELSE sshsession.password
               IN /\ sshsession' = [sshsession EXCEPT
                                       !.password = password,
                                       !.asked = IF ask THEN @ + 1 ELSE @]
                  /\ child' = [child EXCEPT !.pc = "isalive", !.sent = @ + 1,
                                            !.line = password, !.asked = ask,
                                            !.alive = alive]
       ELSE /\ child' = [child EXCEPT !.pc = "warning"]
            /\ UNCHANGED sshsession
    /\ ExecUnchanged

\* pexpectssh.py:98-99: expect again only when the child has ended.
exec_isalive ==
    /\ child.pc = "isalive"
    /\ child' = [child EXCEPT !.pc = IF child.alive THEN "warning"
                                     ELSE "expect_after_password"]
    /\ UNCHANGED sshsession
    /\ ExecUnchanged

\* pexpectssh.py:99.
exec_expect_after_password ==
    /\ child.pc = "expect_after_password"
    /\ \E o \in ExpectOutcomes : child' = Expect(o, "warning")
    /\ UNCHANGED sshsession
    /\ ExecUnchanged

exec_return_Retries ==
    /\ child.pc = "warning"
    /\ child' = [child EXCEPT !.pc =
                    IF child.seen = KeyWarning THEN "raised"
                    ELSE IF child.seen \in {KeyPassword, KeyPassphrase}
                            /\ ~child.alive /\ child.sent < 2
                         THEN "password"
                         ELSE "returned"]
    /\ UNCHANGED sshsession
    /\ ExecUnchanged

\* pexpectssh.py:100-110: on the host-key warning readlines() and
\* logfile.write(lines), which raises TypeError (write takes no list);
\* otherwise write the log and return child.before.
exec_return ==
    /\ child.pc = "warning"
    /\ child' = [child EXCEPT !.pc = IF child.seen = KeyWarning THEN "raised"
                                     ELSE "returned"]
    /\ UNCHANGED sshsession
    /\ ExecUnchanged

ExecNext ==
    \/ exec_spawn \/ exec_expect \/ exec_authenticity \/ exec_expect_after_yes
    \/ exec_password \/ exec_isalive \/ exec_expect_after_password
    \/ exec_return

SpecExec == ExecInit /\ [][ExecNext]_vars

\* A password or passphrase prompt is the last thing _exec saw, after it
\* sent the password.
PromptAfterPassword ==
    /\ child.pc = "warning" /\ child.sent = 1
    /\ child.seen \in {KeyPassword, KeyPassphrase}

\* C34: within one _exec of the interactive backend, whatever the remote
\* side prompts, the host-key question is answered at most once and the
\* password is sent at most once; a password or passphrase prompt seen after
\* the password was sent is not answered: the next thing _exec does is to
\* return, with nothing more sent.
C34_AnsweredAtMostOnce ==
    /\ [](child.yes <= 1 /\ child.sent <= 1)
    /\ [][child'.yes > child.yes =>
            (child.pc = "authenticity" /\ child.seen = KeyAuthenticity
             /\ child.yes = 0)]_vars
    /\ [][child'.sent > child.sent =>
            (child.pc = "password" /\ child.sent = 0
             /\ child.seen \in {KeyPassword, KeyPassphrase})]_vars
    /\ [][PromptAfterPassword =>
            (child'.pc = "returned" /\ child'.sent = 1 /\ child'.yes = child.yes
             /\ sshsession' = sshsession)]_vars

\* _exec answered the host-key question, sent the password, the child ended,
\* a password prompt was seen again, and _exec returned.
C34_Witness ==
    /\ child.pc = "returned" /\ child.yes = 1 /\ child.sent = 1
    /\ ~child.alive /\ child.seen = KeyPassword

\* C35 as stated: over any sequence of run, put and get calls on one
\* SshSession the user is asked for the password at most once.
C35_AskedAtMostOnce == sshsession.asked <= 1

\* C35, amended: the user is asked only while no non-empty password is
\* stored: once one is known, given at construction or typed at a prompt,
\* it never changes, the user is not asked again, and every password sent
\* is the stored one; an empty answer leaves no password stored, and the
\* next prompt asks again.
C35_AskedOnlyWithoutPassword ==
    /\ [][sshsession.password # "" =>
            (sshsession'.asked = sshsession.asked
             /\ sshsession'.password = sshsession.password)]_vars
    /\ [][sshsession'.asked # sshsession.asked =>
            (sshsession'.asked = sshsession.asked + 1
             /\ sshsession.password = "" /\ child.pc = "password"
             /\ child'.asked)]_vars
    /\ [][child'.sent > child.sent => child'.line = sshsession'.password]_vars
    /\ [](sshsession.asked <= sshsession.nexec)

\* The password typed at the prompt of an earlier _exec was sent at the
\* prompt of a later one without asking.
C35_Witness ==
    /\ sshsession.asked = 1 /\ sshsession.password = "pw"
    /\ sshsession.nexec >= 2
    /\ child.sent = 1 /\ ~child.asked /\ child.line = "pw"

-----------------------------------------------------------------------------
(* The working directory of a session                                       *)

\* The steps of a session call that transfer to or from a remote path,
\* chmod it or delete it.
TouchesRemotePath(e) ==
    \/ e.op \in {"put", "get", "chmod"}
    \/ e.op = "run" /\ e.cmd = "rm"

\* C36: once a GrassSession is initialized its working directory and its
\* flag for removal never change; every remote path that put_elements,
\* get_elements and run_script put to, get from, chmod or remove is a direct
\* child of that directory; and when no directory was given to the
\* GrassSession of grasssession.py, the directory is the output of
\* 'mktemp -d' without the whitespace around it, marked for removal.
C36_WorkingDirectoryFixed ==
    /\ [][gs.state = "ready" =>
            (gs'.directory = gs.directory
             /\ gs'.delete_directory = gs.delete_directory
             /\ gs'.given = gs.given)]_vars
    /\ []((gs.state = "ready"
           /\ res.op \in {"put_elements", "get_elements", "run_script"}) =>
            \A k \in DOMAIN trace :
                TouchesRemotePath(trace[k]) =>
                    /\ trace[k].path.dir = gs.directory
                    /\ trace[k].path.file # NoFile)
    /\ []((gs.state = "ready" /\ gs.impl = "grasssession") =>
            IF gs.given = ""
            THEN /\ gs.delete_directory
                 /\ gs.directory = TempDir
                 /\ res.op = "init" =>
                       /\ Len(trace) = 1 /\ trace[1].cmd = "mktemp"
                       /\ trace[1].ret.stdout = <<gs.directory, "\n">>
            ELSE gs.directory = gs.given /\ ~gs.delete_directory)

\* On a session whose directory mktemp made, run_script with remove has put,
\* made executable, run and removed the script in that directory.
C36_Witness ==
    /\ gs.state = "ready" /\ gs.impl = "grasssession" /\ gs.given = ""
    /\ gs.directory = TempDir /\ gs.delete_directory
    /\ res.op = "run_script" /\ Len(trace) = 4
    /\ \A k \in DOMAIN trace : trace[k].path = ChildPath(TempDir, UserScript)

\* The execution step of run_script is among the steps of the call.
ExecutionMade ==
    \E k \in DOMAIN trace : trace[k].op = "run" /\ trace[k].cmd \in ExecCommands

\* C37: when run_script(script, remove=True) has finished, returned or
\* raised for the non-zero exit status of the execution, the remote copy of
\* the script was removed; so that run_code, run_command and
\* run_bash_command leave no copy of their script in the working directory.
C37_RemoteScriptRemoved ==
    (/\ res.op \in {"run_script", "run_code", "run_bash_code", "run_command",
                    "run_bash_command"}
     /\ res.phase = "done"
     /\ res.op = "run_script" => res.arg.remove
     /\ ExecutionMade) =>
        \E j \in DOMAIN trace :
            /\ trace[j].op = "run" /\ trace[j].cmd = "rm"
            /\ \E k \in 1..(j - 1) :
                  /\ trace[k].op = "run" /\ trace[k].cmd \in ExecCommands
                  /\ trace[k].path = trace[j].path

\* C38: in a run of main in which nothing raised, the connection that
\* get_session returned has been closed exactly once when main ends, after
\* the close() of the GrassSession.
C38_ConnectionReleasedOnce ==
    (pc = "main" /\ mainpc = "end") =>
        /\ closed
        /\ last.op = "close"
        /\ conn.kind = "paramiko" =>
              (~conn.transport_live /\ conn.released.transport = 1)
        /\ conn.kind = "pexpect" =>
              (~conn.logfile_open /\ conn.released.logfile = 1)

====
